---- MODULE Spec2Model ----
(***************************************************************************)
(* Model of the Screen-Translate recognition-and-translation pipeline:     *)
(*   core/cache.py          TranslationCache (single-slot dedup cache)     *)
(*   core/screen_capture.py ScreenCapturer   (grabber handle)              *)
(*   core/ocr_processor.py  OCRProcessor     (reader model)                *)
(*   core/translator.py     Translator       (one HTTP call)               *)
(*   core/engine.py         TranslationEngine (start / stop / run loop)    *)
(*   core/audio_processor.py   AudioProcessor   (streaming recognizer)     *)
(*   core/whisper_processor.py WhisperProcessor (batched recognizer)       *)
(*                                                                         *)
(* Texts are sequences of one-character strings.  An optional value        *)
(* (Python None or a value) is a sequence of length 0 or 1.  Time is the   *)
(* monotonic clock in whole seconds.  log_message emissions carry no       *)
(* state and are left out of the event stream; every other signal is an    *)
(* event.  OCR confidences are only ever printed and are left out.  A      *)
(* configuration is an AppConfig reduced to the fields the engine and the  *)
(* translation client read (region, languages, interval, API key); it is   *)
(* fixed under Spec and edited through ConfigManager.update under          *)
(* SpecConfig.  The messages a Translator passes to its logger are kept in *)
(* the record of a translate call made on a bare client (SpecTranslate).   *)
(* start() and stop() are called from one controlling thread; each is      *)
(* atomic up to its blocking call (OCRProcessor.start, Thread.join), while *)
(* run() advances one call at a time on the engine thread.                 *)
(* SpecLive is the engine with a run loop whose blocking calls all         *)
(* return.  A capturer and an OCR processor on their own are driven under  *)
(* SpecParts.  The speech recognizers are driven under SpecSpeechStart     *)
(* (start and stop over every device enumeration), SpecSpeech (driver      *)
(* callback, consumer thread, polled read_text, wall clock),               *)
(* SpecRecognize (the streaming read_text) and SpecSpeechThreads (consumer *)
(* threads that outlive a timed-out join); device indexes count from 1.    *)
(***************************************************************************)
EXTENDS Integers, Sequences, FiniteSets, TLC

\* ---------------------------------------------------------------- bounds
\* every text of at most this length is an input of should_translate
MaxLen == 2
\* last value of the monotonic clock
MaxTime == 3
\* most spans one read_text call returns
MaxSpans == 3

\* ------------------------------------------------------------- constants
\* TranslationEngine.__init__: TranslationCache(ttl_seconds=2.0)
EngineTTL == 2

\* ----------------------------------------------------------------- texts
Alphabet == {"a", " "}
Whitespace == {" ", "\t", "\n"}

RECURSIVE TextsOfLen(_)
TextsOfLen(n) ==
    IF n = 0 THEN {<<>>}
    ELSE {Append(s, c) : s \in TextsOfLen(n - 1), c \in Alphabet}

TextsUpTo(n) == UNION {TextsOfLen(k) : k \in 0..n}

\* longer inputs: inner whitespace runs of one and two characters, other
\* whitespace characters, whitespace on both sides
Samples ==
    { <<"a", " ", "a">>, <<"a", " ", " ", "a">>, <<"a", "\t", "a">>,
      <<"\n", "a", " ">> }

Texts == TextsUpTo(MaxLen) \cup Samples

\* str.lstrip() / str.rstrip() / str.strip()
RECURSIVE LStrip(_)
LStrip(s) ==
    IF s = <<>> THEN <<>>
    ELSE IF Head(s) \in Whitespace THEN LStrip(Tail(s))
    ELSE s

RECURSIVE RStrip(_)
RStrip(s) ==
    IF s = <<>> THEN <<>>
    ELSE IF s[Len(s)] \in Whitespace THEN RStrip(SubSeq(s, 1, Len(s) - 1))
    ELSE s

Strip(s) == RStrip(LStrip(s))

\* the words of a text, in order: its maximal runs of non-whitespace
\* characters.  Two texts differ only in leading or trailing whitespace and
\* in their inner whitespace runs exactly when they have the same words.
RECURSIVE SplitWs(_, _)
SplitWs(s, word) ==
    IF s = <<>> THEN (IF word = <<>> THEN <<>> ELSE <<word>>)
    ELSE IF Head(s) \in Whitespace
         THEN (IF word = <<>> THEN <<>> ELSE <<word>>) \o SplitWs(Tail(s), <<>>)
         ELSE SplitWs(Tail(s), Append(word, Head(s)))

Words(s) == SplitWs(s, <<>>)

\* re.sub(r'\s+', ' ', s): every maximal whitespace run becomes one space
RECURSIVE CollapseWs(_)
CollapseWs(s) ==
    IF s = <<>> THEN <<>>
    ELSE IF Head(s) \in Whitespace
         THEN <<" ">> \o CollapseWs(LStrip(Tail(s)))
         ELSE <<Head(s)>> \o CollapseWs(Tail(s))

\* normalization that trims but does not collapse inner whitespace
NormalizeStripOnly(s) == Strip(s)

\* cache.py: normalized = re.sub(r'\s+', ' ', text.strip())
Normalize(s) == CollapseWs(Strip(s))

\* " ".join(parts)
RECURSIVE JoinSp(_)
JoinSp(parts) ==
    IF parts = <<>> THEN <<>>
    ELSE IF Len(parts) = 1 THEN parts[1]
    ELSE parts[1] \o <<" ">> \o JoinSp(Tail(parts))

\* engine.py: text = " ".join(r.text for r in ocr_results).strip()
MergeSpans(spans) == Strip(JoinSp(spans))


\* ----------------------------------------------------------------- state
\* ---------------------------------------------------------- configuration
\* schemas.py: TranslationConfig.interval_ms = Field(800, ge=100, le=5000)
DefaultIntervalMs == 800
MinIntervalMs == 100

\* ApiConfig.api_key: None (<<>>), the empty string, or a key
ApiKeys == {<<>>, <<(<<>>)>>, <<(<<"k">>)>>}

\* the part of ApiConfig that decides the request's headers
ApiConfigs == {[api_key |-> k] : k \in ApiKeys}

\* AppConfig(): the defaults of schemas.py
DefaultConfig ==
    [source_region |-> "default", source_language |-> "auto",
     target_language |-> "zh", interval_ms |-> DefaultIntervalMs,
     api |-> [api_key |-> <<>>]]

\* a configuration after the user selected a region and edited the settings
EditedConfig ==
    [source_region |-> "selected", source_language |-> "ja",
     target_language |-> "zh", interval_ms |-> MinIntervalMs,
     api |-> [api_key |-> <<(<<"k">>)>>]]

Configs == {DefaultConfig, EditedConfig}

\* TranslationConfig.source_language: Literal["auto", "en", "ja", "ko"]
SourceLanguages == {"auto", "en", "ja", "ko"}

\* TranslationEngine._get_ocr_languages
GetOcrLanguages(source_language) ==
    IF source_language = "ja" THEN <<"ja", "en">>
    ELSE IF source_language = "ko" THEN <<"ko", "en">>
    ELSE IF source_language = "en" THEN <<"en">>
    ELSE <<"ja", "en">>

\* the lists set_languages is called with
LanguageLists == {GetOcrLanguages(l) : l \in SourceLanguages}

\* OCRProcessor.__init__: languages or ["ja", "en"]
DefaultLanguages == <<"ja", "en">>

\* ------------------------------------------------------ speech recognizers
\* AudioProcessor (streaming, Vosk) and WhisperProcessor (batched, Whisper).
\* Bounds of the speech model: devices enumerated by the audio library,
\* chunks the driver delivers, the wall clock, consumer threads of earlier
\* runs that are still alive, the chunk size passed to the constructor.
MaxDevices == 2
MaxChunks == 6
MaxWallSteps == 2
MaxOrphans == 1
ChunkSize == 16000
SampleRate == 16000
BufferSeconds == 3
ValidityWindow == 10
WhisperQueueSize == 100
StreamingQueueSize == 0
WallStep == ValidityWindow \div 2
WallStart == 20
MaxTranscriptions == (MaxChunks * ChunkSize) \div (BufferSeconds * SampleRate)

Variants == {"streaming", "batched"}

\* device names as character sequences, lower-cased and searched as the code
\* does (str.lower, substring test)
BlackHoleName == <<"B", "l", "a", "c", "k", "H", "o", "l", "e">>
BlackSpaceHoleName == <<"B", "l", "a", "c", "k", " ", "H", "o", "l", "e">>
MicName == <<"M", "i", "c">>
DeviceNames == {BlackHoleName, BlackSpaceHoleName, MicName}
LowerChar(c) ==
    CASE c = "B" -> "b"
      [] c = "H" -> "h"
      [] c = "M" -> "m"
      [] OTHER -> c
Lower(s) == [i \in 1..Len(s) |-> LowerChar(s[i])]
Contains(sub, s) ==
    \E i \in 1..(Len(s) - Len(sub) + 1) : SubSeq(s, i, i + Len(sub) - 1) = sub
Signature == <<"b", "l", "a", "c", "k", "h", "o", "l", "e">>
SpacedSignature == <<"b", "l", "a", "c", "k", " ", "h", "o", "l", "e">>
Devices ==
    [name : DeviceNames, channels : {0, 2}, rate : {0, 48000}]
DeviceListsOfLen(n) == [1..n -> Devices]
DeviceLists == UNION {DeviceListsOfLen(n) : n \in 0..MaxDevices}
LoopbackOnly == <<[name |-> BlackHoleName, channels |-> 2, rate |-> 48000]>>

\* find_blackhole_device / _find_blackhole_device: the first enumerated device
\* whose lower-cased name carries the signature and that has input channels;
\* the streaming variant also accepts the spelling with a space
MatchesSignature(variant, name) ==
    \/ Contains(Signature, Lower(name))
    \/ variant = "streaming" /\ Contains(SpacedSignature, Lower(name))
Eligible(variant, devices) ==
    {i \in 1..Len(devices) :
        MatchesSignature(variant, devices[i].name) /\ devices[i].channels > 0}
FindBlackholeDevice(variant, devices) ==
    IF Eligible(variant, devices) = {} THEN <<>>
    ELSE <<CHOOSE i \in Eligible(variant, devices) :
              \A j \in Eligible(variant, devices) : i <= j>>

\* queue.Queue(maxsize): 0 means no limit
QueueMaxsize(variant) ==
    IF variant = "streaming" THEN StreamingQueueSize ELSE WhisperQueueSize
QueueFull(variant, size) ==
    QueueMaxsize(variant) > 0 /\ size >= QueueMaxsize(variant)

\* strings the Vosk recognizer hands back: the empty string, text that is not
\* JSON, or a JSON object whose text is one of SpeechTexts
Terminators ==
    {".", "!", "?", "IDEOGRAPHIC FULL STOP", "FULLWIDTH EXCLAMATION MARK",
     "FULLWIDTH QUESTION MARK", " "}
SpeechTexts ==
    {<<>>, <<"h">>, <<"h", ".">>, <<" ", "h", "!", " ">>, <<" ">>}
RecognizerStrings ==
    {[kind |-> "empty", text |-> <<>>], [kind |-> "malformed", text |-> <<>>]}
        \cup [kind : {"json"}, text : SpeechTexts]
EndsWithTerminator(s) == Len(s) > 0 /\ s[Len(s)] \in Terminators

VARIABLES
    easyocr,        \* ocr_processor.easyocr is not None (the import succeeded)
    now,            \* time.monotonic()
    ttl,            \* TranslationCache._ttl
    cacheEntry,     \* TranslationCache._entry: <<>> or <<[text, timestamp]>>
    lastCall,       \* the latest should_translate call made on the bare cache
    markedCall,     \* an earlier should_translate call, kept for comparison
                    \* until a later call accepts the same text again
    consecutive,    \* markedCall immediately preceded lastCall
    lastRequest,    \* the engine's latest translate call: its normalized
                    \* text, its time and, when the call before it was for
                    \* the same text, the time between the two
    sct,            \* ScreenCapturer._sct is not None
    reader,         \* OCRProcessor._reader is not None
    running,        \* TranslationEngine._running
    stopEvent,      \* TranslationEngine._stop_event
    translator,     \* TranslationEngine._translator is not None
    thrStarted,     \* threading.Thread._started of the engine thread
    aliveLoops,     \* execution contexts currently inside run()
    inFlight,       \* Translator.translate calls that have not returned
    pc,             \* position of the run loop
    capture,        \* run(): capture        ("unset", "none", "frame")
    spanCount,      \* run(): len(ocr_results)
    text,           \* run(): text           (<<>> until merged, then <<T>>)
    shouldTranslate,\* run(): should_translate ("unset", "yes", "no")
    translated,     \* run(): translated     (<<>> or <<R>>)
    exc,            \* run(): the call that raised in this iteration, or "none"
    events,         \* signals emitted in the current iteration, in order
    translateCalls, \* arguments of the translate calls of this iteration
    sleeps,         \* _sleep_interval calls made in this iteration
    prevOutcome,    \* how the previous iteration ended
    callerPc,       \* where the thread calling start()/stop() is
    lastOp,         \* the latest lifecycle call made: "none", "start", "stop"
    lastError,      \* what the latest lifecycle call raised, or "none"
    startCtx,       \* state of the engine thread when the latest start() began
    managerConfig,  \* ConfigManager._config
    activeConfig,   \* TranslationEngine._active_config (<<>> until set)
    interval,       \* TranslationEngine._interval, in ms (<<>> until set)
    apiConfig,      \* Translator._api_config of the engine's translator
    rect,           \* run(): rect, the source region read for this capture
    trCall,         \* the latest translate call made on a bare Translator
    capSct,         \* a ScreenCapturer used alone: _sct is not None
    capOpen,        \* grabber handles that capturer opened and has not closed
    capLast,        \* the latest call made on that capturer
    ocrReader,      \* an OCRProcessor used alone: _reader is not None
    ocrLanguages,   \* that processor's _languages
    ocrLast,        \* the latest call made on that processor
    spVariant,      \* the speech recognizer at hand: "streaming"
                    \* (AudioProcessor) or "batched" (WhisperProcessor)
    spDevices,      \* the audio devices PyAudio enumerates
    spDeviceIndex,  \* the device_index callers pass to start(): <<>> for
                    \* None, or <<i>> for the configured device
    spRunning,      \* _running
    spPyaudio,      \* _pyaudio is not None
    spModel,        \* _model is not None
    spRecognizer,   \* AudioProcessor._recognizer is not None
    spStream,       \* _stream is not None
    spPc,           \* position of the consumer thread (_process_audio) that
                    \* self._thread refers to
    spOrphans,      \* consumer threads of earlier runs that have not ended
    spCaller,       \* where the thread calling start()/stop() is
    spJoinTimesOut, \* the consumer may take longer than stop() waits for it
    spQueue,        \* number of chunks in _audio_queue
    spBuffer,       \* len(WhisperProcessor._audio_buffer)
    spDelivered,    \* callbacks the audio driver has made
    spLastPartial,  \* AudioProcessor._last_partial_text
    spTranscription,\* WhisperProcessor._last_transcription: <<>> for "", or
                    \* <<n>> for the text of the n-th transcription
    spStamp,        \* WhisperProcessor._last_transcription_time
    spSerial,       \* non-empty transcriptions produced so far
    spProduced,     \* per transcription: <<>> or <<the time it was stamped>>
    spReturns,      \* per transcription: the read_text calls that returned it
    wall,           \* time.time()
    spRdPc,         \* position of a WhisperProcessor.read_text call
    spRdTime,       \* read_text(): current_time
    spRdResult,     \* read_text(): results, as the transcriptions it holds
    spStart,        \* the latest start() call made on the recognizer
    spRead          \* the latest read_text() call that returned

envVars == <<easyocr, now>>
cacheVars == <<ttl, cacheEntry>>
obsVars == <<lastCall, markedCall, consecutive, lastRequest>>
resVars == <<sct, reader>>
flagVars == <<running, stopEvent, translator, thrStarted, aliveLoops>>
loopVars == <<pc, capture, spanCount, text, shouldTranslate, translated, exc,
              events, translateCalls, sleeps, prevOutcome, inFlight, rect>>
callerVars == <<callerPc, lastOp, lastError, startCtx>>
cfgVars == <<managerConfig, activeConfig, interval, apiConfig>>
partVars == <<capSct, capOpen, capLast, ocrReader, ocrLanguages, ocrLast>>
speechVars == <<spVariant, spDevices, spDeviceIndex, spJoinTimesOut, spCaller, spRunning, spPyaudio, spModel,
                spRecognizer, spStream, spPc, spOrphans, spQueue, spBuffer,
                spDelivered,
                spLastPartial, spTranscription, spStamp, spSerial, spProduced,
                spReturns, wall, spRdPc, spRdTime, spRdResult, spStart, spRead>>
clientVars == <<trCall, partVars, speechVars>>
otherVars == <<envVars, cacheVars, obsVars, resVars, flagVars, loopVars,
               callerVars, cfgVars, trCall, partVars>>
vars == <<envVars, cacheVars, obsVars, resVars, flagVars, loopVars, callerVars,
          cfgVars, clientVars>>

\* ----------------------------------------------------------------- cache
\* should_translate comparing the raw input with the stored normalized text
ShouldTranslateRawCompare(entry, txt, t, ttlv) ==
    LET normalized == Normalize(txt)
        fresh == <<[text |-> normalized, timestamp |-> t]>>
    IN  IF normalized = <<>> THEN [ret |-> FALSE, entry |-> entry]
        ELSE IF entry = <<>> THEN [ret |-> TRUE, entry |-> fresh]
        ELSE IF txt # entry[1].text \/ t - entry[1].timestamp > ttlv
             THEN [ret |-> TRUE, entry |-> fresh]
             ELSE [ret |-> FALSE, entry |-> entry]

\* should_translate without the time-to-live test
ShouldTranslateNoExpiry(entry, txt, t, ttlv) ==
    LET normalized == Normalize(txt)
        fresh == <<[text |-> normalized, timestamp |-> t]>>
    IN  IF normalized = <<>> THEN [ret |-> FALSE, entry |-> entry]
        ELSE IF entry = <<>> THEN [ret |-> TRUE, entry |-> fresh]
        ELSE IF normalized # entry[1].text
             THEN [ret |-> TRUE, entry |-> fresh]
             ELSE [ret |-> FALSE, entry |-> entry]

\* should_translate testing the raw input, not the normalized one, for
\* emptiness
ShouldTranslateRawEmptyTest(entry, txt, t, ttlv) ==
    LET normalized == Normalize(txt)
        fresh == <<[text |-> normalized, timestamp |-> t]>>
    IN  IF txt = <<>> THEN [ret |-> FALSE, entry |-> entry]
        ELSE IF entry = <<>> THEN [ret |-> TRUE, entry |-> fresh]
        ELSE IF normalized # entry[1].text \/ t - entry[1].timestamp > ttlv
             THEN [ret |-> TRUE, entry |-> fresh]
             ELSE [ret |-> FALSE, entry |-> entry]

\* should_translate replacing the entry only when the text differs and the
\* stored entry has expired
ShouldTranslateBothTests(entry, txt, t, ttlv) ==
    LET normalized == Normalize(txt)
        fresh == <<[text |-> normalized, timestamp |-> t]>>
    IN  IF normalized = <<>> THEN [ret |-> FALSE, entry |-> entry]
        ELSE IF entry = <<>> THEN [ret |-> TRUE, entry |-> fresh]
        ELSE IF normalized # entry[1].text /\ t - entry[1].timestamp > ttlv
             THEN [ret |-> TRUE, entry |-> fresh]
             ELSE [ret |-> FALSE, entry |-> entry]

\* should_translate whose entry expires as soon as the TTL is reached
ShouldTranslateExpiresAtTtl(entry, txt, t, ttlv) ==
    LET normalized == Normalize(txt)
        fresh == <<[text |-> normalized, timestamp |-> t]>>
    IN  IF normalized = <<>> THEN [ret |-> FALSE, entry |-> entry]
        ELSE IF entry = <<>> THEN [ret |-> TRUE, entry |-> fresh]
        ELSE IF normalized # entry[1].text \/ t - entry[1].timestamp >= ttlv
             THEN [ret |-> TRUE, entry |-> fresh]
             ELSE [ret |-> FALSE, entry |-> entry]

\* should_translate storing the text as it was passed in
ShouldTranslateStoresRaw(entry, txt, t, ttlv) ==
    LET normalized == Normalize(txt)
        fresh == <<[text |-> txt, timestamp |-> t]>>
    IN  IF normalized = <<>> THEN [ret |-> FALSE, entry |-> entry]
        ELSE IF entry = <<>> THEN [ret |-> TRUE, entry |-> fresh]
        ELSE IF normalized # entry[1].text \/ t - entry[1].timestamp > ttlv
             THEN [ret |-> TRUE, entry |-> fresh]
             ELSE [ret |-> FALSE, entry |-> entry]

\* TranslationCache.should_translate: the value returned and the entry left
ShouldTranslate(entry, txt, t, ttlv) ==
    LET normalized == Normalize(txt)
        fresh == <<[text |-> normalized, timestamp |-> t]>>
    IN  IF normalized = <<>> THEN [ret |-> FALSE, entry |-> entry]
        ELSE IF entry = <<>> THEN [ret |-> TRUE, entry |-> fresh]
        ELSE IF normalized # entry[1].text \/ t - entry[1].timestamp > ttlv
             THEN [ret |-> TRUE, entry |-> fresh]
             ELSE [ret |-> FALSE, entry |-> entry]

\* the monotonic clock advances
Tick ==
    /\ now < MaxTime
    /\ now' = now + 1
    /\ UNCHANGED <<easyocr, cacheVars, obsVars, resVars, flagVars, loopVars,
                   callerVars, cfgVars, clientVars>>

\* the TTLs a cache is built with: tests/test_cache.py (1.0) and the engine's
TTLs == {1, EngineTTL}

\* what is kept of an earlier call: its normalized input, its words, its
\* result, its time, and whether the cache held no entry for that text when
\* it was made
Marked(call) ==
    IF call = <<>> THEN <<>>
    ELSE <<[norm |-> Normalize(call[1].text), words |-> Words(call[1].text),
            ret |-> call[1].ret,
            time |-> call[1].time,
            novel |-> (call[1].before = <<>>
                       \/ call[1].before[1].text # Normalize(call[1].text))]>>

\* the kept call is no longer the latest one that accepted its text
Superseded ==
    /\ lastCall # <<>> /\ markedCall # <<>>
    /\ lastCall[1].ret
    /\ Normalize(lastCall[1].text) = markedCall[1].norm

\* a caller invokes should_translate(txt) on a bare cache; the call before
\* it, or an earlier one that no later call has superseded, is kept
should_translate ==
    \E txt \in Texts, keep \in BOOLEAN :
        LET r == ShouldTranslate(cacheEntry, txt, now, ttl)
        IN  /\ cacheEntry' = r.entry
            /\ lastCall' = <<[text |-> txt, ret |-> r.ret, time |-> now,
                              before |-> cacheEntry]>>
            /\ markedCall' = IF keep /\ ~Superseded THEN markedCall
                              ELSE Marked(lastCall)
            /\ consecutive' = (~(keep /\ ~Superseded) /\ lastCall # <<>>)
            /\ UNCHANGED <<ttl, envVars, resVars, flagVars, loopVars, callerVars,
                           cfgVars, clientVars, lastRequest>>

\* ---------------------------------------------------------- initial state
\* TranslationEngine.__init__, ScreenCapturer.__init__, OCRProcessor.__init__
InitEngine ==
    /\ sct = FALSE /\ reader = FALSE
    /\ running = FALSE /\ stopEvent = FALSE /\ translator = FALSE
    /\ thrStarted = FALSE /\ aliveLoops = 0 /\ inFlight = 0
    /\ pc = "unstarted" /\ capture = "unset" /\ spanCount = 0 /\ text = <<>>
    /\ shouldTranslate = "unset" /\ translated = <<>> /\ exc = "none"
    /\ events = <<>> /\ translateCalls = <<>> /\ sleeps = 0
    /\ prevOutcome = "none"
    /\ callerPc = "idle" /\ lastOp = "none" /\ lastError = "none"
    /\ startCtx = "none"
    /\ activeConfig = <<>> /\ interval = <<>> /\ apiConfig = <<>>
    /\ rect = <<>> /\ trCall = <<>>

\* TranslationCache.__init__
InitObs ==
    /\ cacheEntry = <<>>
    /\ lastCall = <<>> /\ markedCall = <<>> /\ consecutive = FALSE
    /\ lastRequest = <<>>
    /\ now = 0

\* ScreenCapturer.__init__ and OCRProcessor.__init__ of the parts used alone
InitParts ==
    /\ capSct = FALSE /\ capOpen = 0 /\ capLast = <<>>
    /\ ocrReader = FALSE /\ ocrLanguages = DefaultLanguages /\ ocrLast = <<>>

\* AudioProcessor.__init__ / WhisperProcessor.__init__
InitRecognizer ==
    /\ spRunning = FALSE /\ spPyaudio = FALSE /\ spModel = FALSE
    /\ spRecognizer = FALSE /\ spStream = FALSE /\ spPc = "none"
    /\ spOrphans = 0 /\ spCaller = "idle"
    /\ spQueue = 0 /\ spBuffer = 0 /\ spDelivered = 0
    /\ spLastPartial = <<>> /\ spTranscription = <<>> /\ spStamp = 0
    /\ spSerial = 0
    /\ spProduced = [n \in 1..MaxTranscriptions |-> <<>>]
    /\ spReturns = [n \in 1..MaxTranscriptions |-> 0]
    /\ wall = WallStart
    /\ spRdPc = "idle" /\ spRdTime = 0 /\ spRdResult = <<>>
    /\ spStart = <<>> /\ spRead = <<>>

\* a speech recognizer that is not part of the behaviour
InitSpeechIdle ==
    /\ InitRecognizer
    /\ spVariant = "streaming"
    /\ spJoinTimesOut = FALSE
    /\ spDeviceIndex = <<>>
    /\ spDevices = LoopbackOnly

InitCache ==
    /\ InitEngine /\ InitObs /\ InitParts /\ InitSpeechIdle
    /\ managerConfig = DefaultConfig
    /\ easyocr = TRUE
    /\ ttl \in TTLs

NextCache == should_translate \/ Tick

SpecCache == InitCache /\ [][NextCache]_vars


\* ------------------------------------------------------------ environment
\* what one read_text call can return: the texts of its spans
SpanTexts == {<<" ">>, <<"a">>}

RECURSIVE SpanSeqsOfLen(_)
SpanSeqsOfLen(n) ==
    IF n = 0 THEN {<<>>}
    ELSE {Append(q, t) : q \in SpanSeqsOfLen(n - 1), t \in SpanTexts}

SpanSeqs == UNION {SpanSeqsOfLen(k) : k \in 0..MaxSpans}

\* what the HTTP API can answer to one request
Responses ==
    { [kind |-> "neterr", content |-> <<>>],
      [kind |-> "status", content |-> <<>>],
      [kind |-> "malformed", content |-> <<>>],
      [kind |-> "ok", content |-> <<"x">>],
      [kind |-> "ok", content |-> <<" ", "y", "\n">>] }

\* ------------------------------------------------------------- translator
\* Translator.translate: one request; raises on a network failure, a
\* non-2xx status or a body without choices[0].message.content, else
\* returns TranslationResult(text=content.strip())
Translate(txt, resp) ==
    IF resp.kind = "ok"
    THEN [raised |-> FALSE, text |-> Strip(resp.content)]
    ELSE [raised |-> TRUE, text |-> <<>>]

\* translate(): if self._api_config.api_key (None and "" are both falsy)
KeyConfigured(api) == api.api_key # <<>> /\ api.api_key[1] # <<>>

\* a request carrying the Authorization header whatever the key is
RequestAlwaysAuth(api, txt) ==
    [content |-> txt,
     headers |-> {"Content-Type", "Authorization"},
     bearer |-> api.api_key]

\* translate(): the one request built: payload (the prompt prefix followed
\* by the text) and headers
Request(api, txt) ==
    [content |-> txt,
     headers |-> IF KeyConfigured(api)
                 THEN {"Content-Type", "Authorization"}
                 ELSE {"Content-Type"},
     bearer |-> IF KeyConfigured(api) THEN api.api_key ELSE <<>>]

\* translate(): the messages passed to self._log, in order
TranslateLogs(api, resp) ==
    <<"prepare", "system_prompt", "model", "endpoint", "mode">>
    \o <<IF KeyConfigured(api) THEN "key_set" ELSE "warning_no_key">>
    \o <<"sending">>
    \o (IF resp.kind = "neterr" THEN <<"failed">>
        ELSE IF resp.kind = "status" THEN <<"status_code", "failed">>
        ELSE IF resp.kind = "malformed"
             THEN <<"status_code", "parsing", "failed">>
             ELSE <<"status_code", "parsing", "content">>)

\* a translate that posts the request a second time when the first failed
TranslateCallRetry(api, logger, txt, resp) ==
    LET res == Translate(txt, resp)
    IN  [api |-> api, logger |-> logger, text |-> txt, kind |-> resp.kind,
         requests |-> IF res.raised
                      THEN <<Request(api, txt), Request(api, txt)>>
                      ELSE <<Request(api, txt)>>,
         logs |-> IF logger THEN TranslateLogs(api, resp) ELSE <<>>,
         raised |-> res.raised,
         result |-> IF res.raised THEN <<>> ELSE <<res.text>>]

\* Translator(api, logger).translate(txt) answered by resp: the requests
\* posted, the messages that reached the logger, and the outcome
TranslateCall(api, logger, txt, resp) ==
    LET res == Translate(txt, resp)
    IN  [api |-> api, logger |-> logger, text |-> txt, kind |-> resp.kind,
         requests |-> <<Request(api, txt)>>,
         logs |-> IF logger THEN TranslateLogs(api, resp) ELSE <<>>,
         raised |-> res.raised,
         result |-> IF res.raised THEN <<>> ELSE <<res.text>>]

\* one translate call on a Translator built for the call
translate_call ==
    /\ \E api \in ApiConfigs, logger \in BOOLEAN, txt \in Texts,
          resp \in Responses :
            trCall' = <<TranslateCall(api, logger, txt, resp)>>
    /\ UNCHANGED <<envVars, cacheVars, obsVars, resVars, flagVars, loopVars,
                   callerVars, cfgVars, partVars, speechVars>>

\* ------------------------------------------------------- capturer alone
\* the rectangles capture() is given: a null QRect or a region
Rects == {"null", "default", "selected"}

CapCall(op, rc, raised, result) ==
    <<[op |-> op, rect |-> rc, raised |-> raised, result |-> result,
       held |-> capSct]>>

\* a start() that opens a grabber whether or not one is held
cap_start_unguarded ==
    /\ \E grabberOk \in BOOLEAN :
        IF grabberOk
        THEN /\ capSct' = TRUE /\ capOpen' = capOpen + 1
             /\ capLast' = CapCall("start", "none", FALSE, "none")
        ELSE /\ capLast' = CapCall("start", "none", TRUE, "none")
             /\ UNCHANGED <<capSct, capOpen>>
    /\ UNCHANGED <<envVars, cacheVars, obsVars, resVars, flagVars, loopVars,
                   callerVars, cfgVars, trCall, speechVars, ocrReader, ocrLanguages,
                   ocrLast>>

\* ScreenCapturer.start: mss.mss() only when no grabber is held
cap_start ==
    /\ \E grabberOk \in BOOLEAN :
        IF capSct
        THEN /\ capLast' = CapCall("start", "none", FALSE, "none")
             /\ UNCHANGED <<capSct, capOpen>>
        ELSE IF grabberOk
        THEN /\ capSct' = TRUE /\ capOpen' = capOpen + 1
             /\ capLast' = CapCall("start", "none", FALSE, "none")
        ELSE \* mss.mss() raises
             /\ capLast' = CapCall("start", "none", TRUE, "none")
             /\ UNCHANGED <<capSct, capOpen>>
    /\ UNCHANGED <<envVars, cacheVars, obsVars, resVars, flagVars, loopVars,
                   callerVars, cfgVars, trCall, speechVars, ocrReader, ocrLanguages,
                   ocrLast>>

\* ScreenCapturer.stop: close the grabber if one is held
cap_stop ==
    /\ capSct' = FALSE
    /\ capOpen' = IF capSct THEN capOpen - 1 ELSE capOpen
    /\ capLast' = CapCall("stop", "none", FALSE, "none")
    /\ UNCHANGED <<envVars, cacheVars, obsVars, resVars, flagVars, loopVars,
                   callerVars, cfgVars, trCall, speechVars, ocrReader, ocrLanguages,
                   ocrLast>>

\* ScreenCapturer.capture: start() if needed, None for a null rectangle,
\* else the grabbed frame
cap_capture ==
    /\ \E rc \in Rects, grabberOk \in BOOLEAN, grabOk \in BOOLEAN :
        IF ~capSct /\ ~grabberOk
        THEN \* self.start() raises
             /\ capLast' = CapCall("capture", rc, TRUE, "none")
             /\ UNCHANGED <<capSct, capOpen>>
        ELSE /\ capSct' = TRUE
             /\ capOpen' = IF capSct THEN capOpen ELSE capOpen + 1
             /\ capLast' = IF rc = "null"
                           THEN CapCall("capture", rc, FALSE, "none")
                           ELSE IF grabOk
                           THEN CapCall("capture", rc, FALSE, "frame")
                           ELSE CapCall("capture", rc, TRUE, "none")
    /\ UNCHANGED <<envVars, cacheVars, obsVars, resVars, flagVars, loopVars,
                   callerVars, cfgVars, trCall, speechVars, ocrReader, ocrLanguages,
                   ocrLast>>

\* ------------------------------------------------------ recognizer alone
OcrCall(op, arg, raised, held, before) ==
    <<[op |-> op, arg |-> arg, raised |-> raised, held |-> held,
       before |-> before]>>

\* a set_languages that replaces the list whatever the reader's state
ocr_set_languages_unguarded ==
    /\ \E langs \in LanguageLists :
        /\ ocrLanguages' = langs
        /\ ocrLast' = OcrCall("set_languages", langs, FALSE, ocrReader,
                              ocrLanguages)
    /\ UNCHANGED <<envVars, cacheVars, obsVars, resVars, flagVars, loopVars,
                   callerVars, cfgVars, trCall, speechVars, capSct, capOpen, capLast,
                   ocrReader>>

\* OCRProcessor.set_languages: RuntimeError while a reader exists
ocr_set_languages ==
    /\ \E langs \in LanguageLists :
        IF ocrReader
        THEN /\ ocrLast' = OcrCall("set_languages", langs, TRUE, ocrReader,
                                   ocrLanguages)
             /\ UNCHANGED ocrLanguages
        ELSE /\ ocrLanguages' = langs
             /\ ocrLast' = OcrCall("set_languages", langs, FALSE, ocrReader,
                                   ocrLanguages)
    /\ UNCHANGED <<envVars, cacheVars, obsVars, resVars, flagVars, loopVars,
                   callerVars, cfgVars, trCall, speechVars, capSct, capOpen, capLast,
                   ocrReader>>

\* OCRProcessor.start: RuntimeError without easyocr, else build the reader
\* if there is none
ocr_start ==
    /\ \E readerOk \in BOOLEAN :
        IF ~easyocr \/ (~ocrReader /\ ~readerOk)
        THEN /\ ocrLast' = OcrCall("start", <<>>, TRUE, ocrReader,
                                   ocrLanguages)
             /\ UNCHANGED ocrReader
        ELSE /\ ocrReader' = TRUE
             /\ ocrLast' = OcrCall("start", <<>>, FALSE, ocrReader,
                                   ocrLanguages)
    /\ UNCHANGED <<envVars, cacheVars, obsVars, resVars, flagVars, loopVars,
                   callerVars, cfgVars, trCall, speechVars, capSct, capOpen, capLast,
                   ocrLanguages>>

\* OCRProcessor.stop
ocr_stop ==
    /\ ocrReader' = FALSE
    /\ ocrLast' = OcrCall("stop", <<>>, FALSE, ocrReader, ocrLanguages)
    /\ UNCHANGED <<envVars, cacheVars, obsVars, resVars, flagVars, loopVars,
                   callerVars, cfgVars, trCall, speechVars, capSct, capOpen, capLast,
                   ocrLanguages>>

\* OCRProcessor.read_text: start() if there is no reader, then readtext
ocr_read_text ==
    /\ \E readerOk \in BOOLEAN, readOk \in BOOLEAN :
        IF ~ocrReader /\ (~easyocr \/ ~readerOk)
        THEN /\ ocrLast' = OcrCall("read_text", <<>>, TRUE, ocrReader,
                                   ocrLanguages)
             /\ UNCHANGED ocrReader
        ELSE /\ ocrReader' = TRUE
             /\ ocrLast' = OcrCall("read_text", <<>>, ~readOk, ocrReader,
                                   ocrLanguages)
    /\ UNCHANGED <<envVars, cacheVars, obsVars, resVars, flagVars, loopVars,
                   callerVars, cfgVars, trCall, speechVars, capSct, capOpen, capLast,
                   ocrLanguages>>

\* ---------------------------------------------------------- config manager
\* ConfigManager.update: self._config is replaced by a modified copy
update_config ==
    /\ callerPc = "idle"
    /\ \E cfg \in Configs \ {managerConfig} : managerConfig' = cfg
    /\ UNCHANGED <<envVars, cacheVars, obsVars, resVars, flagVars, loopVars,
                   callerVars, activeConfig, interval, apiConfig, clientVars>>

\* ----------------------------------------------------------------- engine
Ev(kind, arg) == [kind |-> kind, arg |-> arg]

\* threading.Thread.is_alive() of the engine thread
IsAlive == pc \notin {"unstarted", "exited"}

\* how the iteration whose locals are in the state ended
Outcome ==
    IF exc # "none" THEN "error_" \o exc
    ELSE IF capture = "unset" THEN "none"
    ELSE IF capture = "none" THEN "skip_capture"
    ELSE IF text = <<>> \/ text[1] = <<>> THEN "skip_empty"
    ELSE IF shouldTranslate = "no" THEN "skip_dup"
    ELSE IF translated # <<>> THEN "translated"
    ELSE "no_response"

\* an exception that leaves run() instead of being caught in the iteration
RaisedPropagates(where) ==
    /\ exc' = where
    /\ events' = events
    /\ pc' = "exited"

\* run(): except Exception as exc: engine_error.emit(...); then finally
Raised(where) ==
    /\ exc' = where
    /\ events' = Append(events, Ev("engine_error", <<where>>))
    /\ pc' = "sleep"

\* threading.Thread.start(self): a thread object starts at most once
ThreadStart ==
    IF thrStarted
    THEN /\ lastError' = "thread_restart"
         /\ UNCHANGED <<thrStarted, aliveLoops, pc>>
    ELSE /\ lastError' = "none"
         /\ thrStarted' = TRUE
         /\ aliveLoops' = aliveLoops + 1
         /\ pc' = "check"

\* start(): from the Running check to self._capturer.start()
start ==
    /\ callerPc = "idle"
    /\ startCtx' = IF pc = "unstarted" THEN "fresh"
                   ELSE IF pc = "exited" THEN "exited" ELSE "alive"
    /\ IF running
       THEN /\ lastOp' = "start_noop"
            /\ lastError' = "none"
            /\ UNCHANGED <<callerPc, running, stopEvent, sct, activeConfig>>
       ELSE /\ lastOp' = "start"
            /\ running' = TRUE
            /\ stopEvent' = FALSE
            /\ activeConfig' = <<managerConfig>>
            /\ IF reader
               THEN \* OCRProcessor.set_languages raises RuntimeError
                    /\ lastError' = "set_languages"
                    /\ UNCHANGED <<callerPc, sct>>
               ELSE \E grabberOk \in BOOLEAN :
                    IF sct \/ grabberOk
                    THEN /\ sct' = TRUE
                         /\ callerPc' = "starting"
                         /\ lastError' = "none"
                    ELSE \* mss.mss() raises
                         /\ lastError' = "capturer_start"
                         /\ UNCHANGED <<callerPc, sct>>
    /\ UNCHANGED <<envVars, cacheVars, obsVars, reader, translator, thrStarted,
                   aliveLoops, loopVars, managerConfig, interval, apiConfig,
                   clientVars>>

\* start() spawning a fresh thread for run() on every call
start_ocr_spawn ==
    /\ callerPc = "starting"
    /\ callerPc' = "idle"
    /\ aliveLoops <= 1
    /\ reader' = TRUE
    /\ translator' = TRUE
    /\ apiConfig' = <<activeConfig[1].api>>
    /\ interval' = <<activeConfig[1].interval_ms>>
    /\ lastError' = "none"
    /\ thrStarted' = TRUE
    /\ aliveLoops' = aliveLoops + 1
    /\ pc' = IF pc \in {"unstarted", "exited"} THEN "check" ELSE pc
    /\ UNCHANGED <<envVars, managerConfig, activeConfig, clientVars,
                   cacheVars, obsVars, sct, running, stopEvent,
                   capture, spanCount, text, shouldTranslate, translated, exc,
                   events, translateCalls, sleeps, prevOutcome, rect, inFlight,
                   lastOp, startCtx>>

\* start(): from self._ocr.start() to threading.Thread.start(self)
start_ocr ==
    /\ callerPc = "starting"
    /\ callerPc' = "idle"
    /\ IF ~easyocr
       THEN \* OCRProcessor.start raises RuntimeError
            /\ lastError' = "easyocr_missing"
            /\ UNCHANGED <<reader, translator, apiConfig, interval,
                           thrStarted, aliveLoops, pc>>
       ELSE \E readerOk \in BOOLEAN :
            IF ~(reader \/ readerOk)
            THEN \* easyocr.Reader(...) raises
                 /\ lastError' = "reader_init"
                 /\ UNCHANGED <<reader, translator, apiConfig, interval,
                                thrStarted, aliveLoops, pc>>
            ELSE /\ reader' = TRUE
                 /\ translator' = TRUE
                 /\ apiConfig' = <<activeConfig[1].api>>
                 /\ interval' = <<activeConfig[1].interval_ms>>
                 /\ IF IsAlive
                    THEN /\ lastError' = "none"
                         /\ UNCHANGED <<thrStarted, aliveLoops, pc>>
                    ELSE ThreadStart
    /\ UNCHANGED <<envVars, managerConfig, activeConfig, clientVars,
                   cacheVars, obsVars, sct, running, stopEvent,
                   capture, spanCount, text, shouldTranslate, translated, exc,
                   events, translateCalls, sleeps, prevOutcome, rect, inFlight,
                   lastOp, startCtx>>

\* stop() without the early return of an engine that is not running
stop_unguarded ==
    /\ callerPc = "idle"
    /\ lastError' = "none"
    /\ lastOp' = IF running THEN "stop" ELSE "stop_noop"
    /\ stopEvent' = TRUE
    /\ running' = FALSE
    /\ sct' = FALSE
    /\ reader' = FALSE
    /\ callerPc' = IF IsAlive THEN "joining" ELSE "idle"
    /\ UNCHANGED <<envVars, cfgVars, clientVars, cacheVars, obsVars, translator,
                   thrStarted, aliveLoops, loopVars, startCtx>>

\* stop(): up to the join
stop ==
    /\ callerPc = "idle"
    /\ lastError' = "none"
    /\ IF ~running
       THEN /\ lastOp' = "stop_noop"
            /\ UNCHANGED <<callerPc, running, stopEvent, sct, reader>>
       ELSE /\ lastOp' = "stop"
            /\ stopEvent' = TRUE
            /\ running' = FALSE
            /\ sct' = FALSE
            /\ reader' = FALSE
            /\ callerPc' = IF IsAlive THEN "joining" ELSE "idle"
    /\ UNCHANGED <<envVars, cfgVars, clientVars, cacheVars, obsVars, translator, thrStarted,
                   aliveLoops, loopVars, startCtx>>

\* a join without timeout: returns only once the thread has finished
stop_join_unbounded ==
    /\ callerPc = "joining"
    /\ pc \in {"unstarted", "exited"}
    /\ callerPc' = "idle"
    /\ UNCHANGED <<envVars, cfgVars, clientVars, cacheVars, obsVars, resVars, flagVars, loopVars,
                   lastOp, lastError, startCtx>>

\* stop(): self.join(timeout=2) returns, the thread finished or not
stop_join ==
    /\ callerPc = "joining"
    /\ callerPc' = "idle"
    /\ UNCHANGED <<envVars, cfgVars, clientVars, cacheVars, obsVars, resVars, flagVars, loopVars,
                   lastOp, lastError, startCtx>>

\* the loop condition with the negation of the stop event dropped
run_check_no_negation ==
    /\ pc = "check"
    /\ IF running \/ stopEvent
       THEN /\ pc' = "capture"
            /\ prevOutcome' = Outcome
            /\ capture' = "unset" /\ spanCount' = 0 /\ text' = <<>>
            /\ shouldTranslate' = "unset" /\ translated' = <<>>
            /\ exc' = "none" /\ events' = <<>> /\ translateCalls' = <<>>
            /\ sleeps' = 0 /\ rect' = <<>>
            /\ UNCHANGED aliveLoops
       ELSE /\ pc' = "exited"
            /\ aliveLoops' = aliveLoops - 1
            /\ UNCHANGED <<capture, spanCount, text, shouldTranslate,
                           translated, exc, events, translateCalls, sleeps,
                           prevOutcome, rect>>
    /\ UNCHANGED <<envVars, cfgVars, clientVars, cacheVars, obsVars, resVars, running, stopEvent,
                   translator, thrStarted, inFlight, callerVars>>

\* a loop without a continuation test
run_check_untested ==
    /\ pc = "check"
    /\ IF TRUE
       THEN /\ pc' = "capture"
            /\ prevOutcome' = Outcome
            /\ capture' = "unset" /\ spanCount' = 0 /\ text' = <<>>
            /\ shouldTranslate' = "unset" /\ translated' = <<>>
            /\ exc' = "none" /\ events' = <<>> /\ translateCalls' = <<>>
            /\ sleeps' = 0 /\ rect' = <<>>
            /\ UNCHANGED aliveLoops
       ELSE /\ pc' = "exited"
            /\ aliveLoops' = aliveLoops - 1
            /\ UNCHANGED <<capture, spanCount, text, shouldTranslate,
                           translated, exc, events, translateCalls, sleeps,
                           prevOutcome, rect>>
    /\ UNCHANGED <<envVars, cfgVars, clientVars, cacheVars, obsVars, resVars, running, stopEvent,
                   translator, thrStarted, inFlight, callerVars>>

\* run(): while self._running.is_set() and not self._stop_event.is_set()
run_check ==
    /\ pc = "check"
    /\ IF running /\ ~stopEvent
       THEN /\ pc' = "capture"
            /\ prevOutcome' = Outcome
            /\ capture' = "unset" /\ spanCount' = 0 /\ text' = <<>>
            /\ shouldTranslate' = "unset" /\ translated' = <<>>
            /\ exc' = "none" /\ events' = <<>> /\ translateCalls' = <<>>
            /\ sleeps' = 0 /\ rect' = <<>>
            /\ UNCHANGED aliveLoops
       ELSE /\ pc' = "exited"
            /\ aliveLoops' = aliveLoops - 1
            /\ UNCHANGED <<capture, spanCount, text, shouldTranslate,
                           translated, exc, events, translateCalls, sleeps,
                           prevOutcome, rect>>
    /\ UNCHANGED <<envVars, cfgVars, clientVars, cacheVars, obsVars, resVars, running, stopEvent,
                   translator, thrStarted, inFlight, callerVars>>

\* a capture reading the region from the configuration manager
run_capture_live_config ==
    /\ pc = "capture"
    /\ rect' = <<managerConfig.source_region>>
    /\ \E grabberOk \in BOOLEAN, got \in {"frame", "none", "raise"} :
        IF ~(sct \/ grabberOk)
        THEN /\ Raised("capture")
             /\ UNCHANGED <<sct, capture>>
        ELSE /\ sct' = TRUE
             /\ IF got = "raise"
                THEN Raised("capture") /\ UNCHANGED capture
                ELSE /\ capture' = got
                     /\ pc' = IF got = "none" THEN "skipsleep" ELSE "ocr"
                     /\ UNCHANGED <<exc, events>>
    /\ UNCHANGED <<envVars, cfgVars, clientVars, cacheVars, obsVars, reader,
                   flagVars, spanCount, text, shouldTranslate, translated,
                   translateCalls, sleeps, prevOutcome, inFlight, callerVars>>

\* run(): rect = self._active_config.source_region;
\*        capture = self._capturer.capture(QRect(...))
run_capture ==
    /\ pc = "capture"
    /\ rect' = <<activeConfig[1].source_region>>
    /\ \E grabberOk \in BOOLEAN, got \in {"frame", "none", "raise"} :
        IF ~(sct \/ grabberOk)
        THEN \* ScreenCapturer.start inside capture(): mss.mss() raises
             /\ Raised("capture")
             /\ UNCHANGED <<sct, capture>>
        ELSE /\ sct' = TRUE
             /\ IF got = "raise"
                THEN Raised("capture") /\ UNCHANGED capture
                ELSE /\ capture' = got
                     /\ pc' = IF got = "none" THEN "skipsleep" ELSE "ocr"
                     /\ UNCHANGED <<exc, events>>
    /\ UNCHANGED <<envVars, cfgVars, clientVars, cacheVars, obsVars, reader, flagVars, spanCount,
                   text, shouldTranslate, translated, translateCalls, sleeps,
                   prevOutcome, inFlight, callerVars>>

\* an OCR step that goes on to the cache check with an empty merged text
run_ocr_no_empty_check ==
    /\ pc = "ocr"
    /\ \E readerOk \in BOOLEAN, readOk \in BOOLEAN, spans \in SpanSeqs :
        IF ~reader /\ (~easyocr \/ ~readerOk)
        THEN /\ Raised("ocr")
             /\ UNCHANGED <<reader, spanCount, text>>
        ELSE /\ reader' = TRUE
             /\ IF ~readOk
                THEN Raised("ocr") /\ UNCHANGED <<spanCount, text>>
                ELSE /\ spanCount' = Len(spans)
                     /\ text' = <<MergeSpans(spans)>>
                     /\ pc' = "dedup"
                     /\ UNCHANGED <<exc, events>>
    /\ UNCHANGED <<envVars, cfgVars, clientVars, cacheVars, obsVars, sct,
                   flagVars, capture, shouldTranslate, translated,
                   translateCalls, sleeps, prevOutcome, rect, inFlight,
                   callerVars>>

\* run(): ocr_results = self._ocr.read_text(capture.image), merged to text
run_ocr ==
    /\ pc = "ocr"
    /\ \E readerOk \in BOOLEAN, readOk \in BOOLEAN, spans \in SpanSeqs :
        IF ~reader /\ (~easyocr \/ ~readerOk)
        THEN \* OCRProcessor.start inside read_text() raises
             /\ Raised("ocr")
             /\ UNCHANGED <<reader, spanCount, text>>
        ELSE /\ reader' = TRUE
             /\ IF ~readOk
                THEN Raised("ocr") /\ UNCHANGED <<spanCount, text>>
                ELSE /\ spanCount' = Len(spans)
                     /\ text' = <<MergeSpans(spans)>>
                     /\ pc' = IF MergeSpans(spans) = <<>> THEN "skipsleep"
                              ELSE "dedup"
                     /\ UNCHANGED <<exc, events>>
    /\ UNCHANGED <<envVars, cfgVars, clientVars, cacheVars, obsVars, sct, flagVars, capture,
                   shouldTranslate, translated, translateCalls, sleeps,
                   prevOutcome, rect, inFlight, callerVars>>

\* what is kept of a translate call the engine makes at time t for txt,
\* prev being what was kept of the call before it
Requested(prev, txt, t) ==
    <<[text |-> Normalize(txt), time |-> t,
       gap |-> IF prev # <<>> /\ prev[1].text = Normalize(txt)
               THEN <<t - prev[1].time>> ELSE <<>>]>>

\* a cycle that calls the translation client whatever the cache answered
run_dedup_ignores_cache ==
    /\ pc = "dedup"
    /\ LET r == ShouldTranslate(cacheEntry, text[1], now, ttl)
           detected == events \o <<Ev("ocr_text_detected", text[1]),
                                   Ev("language_detected",
                                      <<activeConfig[1].source_language>>)>>
       IN  /\ cacheEntry' = r.entry
           /\ shouldTranslate' = IF r.ret THEN "yes" ELSE "no"
           /\ IF translator
              THEN /\ events' = Append(detected,
                          Ev("translation_requested", text[1]))
                   /\ translateCalls' = Append(translateCalls, text[1])
                   /\ lastRequest' = Requested(lastRequest, text[1], now)
                   /\ inFlight' = inFlight + 1
                   /\ pc' = "translate"
              ELSE /\ events' = detected
                   /\ pc' = "sleep"
                   /\ UNCHANGED <<translateCalls, inFlight, lastRequest>>
    /\ UNCHANGED <<envVars, cfgVars, clientVars, ttl, lastCall, markedCall,
                   consecutive, resVars, flagVars, capture, spanCount,
                   text, translated, exc, sleeps, prevOutcome, rect, callerVars>>

\* a cycle whose cache check leaves the entry as it was
run_dedup_no_record ==
    /\ pc = "dedup"
    /\ LET r == ShouldTranslate(cacheEntry, text[1], now, ttl)
           detected == events \o <<Ev("ocr_text_detected", text[1]),
                                   Ev("language_detected",
                                      <<activeConfig[1].source_language>>)>>
       IN  /\ cacheEntry' = cacheEntry
           /\ IF ~r.ret
              THEN /\ shouldTranslate' = "no"
                   /\ pc' = "skipsleep"
                   /\ UNCHANGED <<events, translateCalls, inFlight,
                                  lastRequest>>
              ELSE /\ shouldTranslate' = "yes"
                   /\ IF translator
                      THEN /\ events' = Append(detected,
                                  Ev("translation_requested", text[1]))
                           /\ translateCalls' = Append(translateCalls, text[1])
                           /\ lastRequest' = Requested(lastRequest, text[1], now)
                           /\ inFlight' = inFlight + 1
                           /\ pc' = "translate"
                      ELSE /\ events' = detected
                           /\ pc' = "sleep"
                           /\ UNCHANGED <<translateCalls, inFlight,
                                          lastRequest>>
    /\ UNCHANGED <<envVars, cfgVars, clientVars, ttl, lastCall, markedCall,
                   consecutive, resVars, flagVars, capture, spanCount,
                   text, translated, exc, sleeps, prevOutcome, rect, callerVars>>

\* run(): the cache check, the detection events and the call of translate
run_dedup ==
    /\ pc = "dedup"
    /\ LET r == ShouldTranslate(cacheEntry, text[1], now, ttl)
           detected == events \o <<Ev("ocr_text_detected", text[1]),
                                   Ev("language_detected",
                                      <<activeConfig[1].source_language>>)>>
       IN  /\ cacheEntry' = r.entry
           /\ IF ~r.ret
              THEN /\ shouldTranslate' = "no"
                   /\ pc' = "skipsleep"
                   /\ UNCHANGED <<events, translateCalls, inFlight,
                                  lastRequest>>
              ELSE /\ shouldTranslate' = "yes"
                   /\ IF translator
                      THEN /\ events' = Append(detected,
                                  Ev("translation_requested", text[1]))
                           /\ translateCalls' = Append(translateCalls, text[1])
                           /\ lastRequest' = Requested(lastRequest, text[1], now)
                           /\ inFlight' = inFlight + 1
                           /\ pc' = "translate"
                      ELSE /\ events' = detected
                           /\ pc' = "sleep"
                           /\ UNCHANGED <<translateCalls, inFlight,
                                          lastRequest>>
    /\ UNCHANGED <<envVars, cfgVars, clientVars, ttl, lastCall, markedCall,
                   consecutive, resVars, flagVars, capture, spanCount,
                   text, translated, exc, sleeps, prevOutcome, rect, callerVars>>

\* translate's result emitted as translation_received only
run_translate_no_ready ==
    /\ pc = "translate"
    /\ inFlight' = inFlight - 1
    /\ \E resp \in Responses :
        LET res == Translate(text[1], resp)
        IN  IF res.raised
            THEN Raised("translate") /\ UNCHANGED translated
            ELSE /\ translated' = <<res.text>>
                 /\ events' = Append(events, Ev("translation_received", res.text))
                 /\ pc' = "sleep"
                 /\ UNCHANGED exc
    /\ UNCHANGED <<envVars, cfgVars, clientVars, cacheVars, obsVars, resVars, flagVars, capture,
                   spanCount, text, shouldTranslate, translateCalls, sleeps,
                   prevOutcome, rect, callerVars>>

\* a failed translate swallowed as "no response", without an error event
run_translate_swallow ==
    /\ pc = "translate"
    /\ inFlight' = inFlight - 1
    /\ \E resp \in Responses :
        LET res == Translate(text[1], resp)
        IN  IF res.raised
            THEN /\ exc' = "translate"
                 /\ pc' = "sleep"
                 /\ UNCHANGED <<translated, events>>
            ELSE /\ translated' = <<res.text>>
                 /\ events' = events \o <<Ev("translation_received", res.text),
                                          Ev("translation_ready", res.text)>>
                 /\ pc' = "sleep"
                 /\ UNCHANGED exc
    /\ UNCHANGED <<envVars, cfgVars, clientVars, cacheVars, obsVars, resVars, flagVars, capture,
                   spanCount, text, shouldTranslate, translateCalls, sleeps,
                   prevOutcome, rect, callerVars>>

\* translation_ready emitted before translation_received
run_translate_ready_first ==
    /\ pc = "translate"
    /\ inFlight' = inFlight - 1
    /\ \E resp \in Responses :
        LET res == Translate(text[1], resp)
        IN  IF res.raised
            THEN Raised("translate") /\ UNCHANGED translated
            ELSE /\ translated' = <<res.text>>
                 /\ events' = events \o <<Ev("translation_ready", res.text),
                                          Ev("translation_received", res.text)>>
                 /\ pc' = "sleep"
                 /\ UNCHANGED exc
    /\ UNCHANGED <<envVars, cfgVars, clientVars, cacheVars, obsVars, resVars,
                   flagVars, capture, spanCount, text, shouldTranslate,
                   translateCalls, sleeps, prevOutcome, rect, callerVars>>

\* run(): self._translator.translate(text) returns or raises
run_translate ==
    /\ pc = "translate"
    /\ inFlight' = inFlight - 1
    /\ \E resp \in Responses :
        LET res == Translate(text[1], resp)
        IN  IF res.raised
            THEN Raised("translate") /\ UNCHANGED translated
            ELSE /\ translated' = <<res.text>>
                 /\ events' = events \o <<Ev("translation_received", res.text),
                                          Ev("translation_ready", res.text)>>
                 /\ pc' = "sleep"
                 /\ UNCHANGED exc
    /\ UNCHANGED <<envVars, cfgVars, clientVars, cacheVars, obsVars, resVars, flagVars, capture,
                   spanCount, text, shouldTranslate, translateCalls, sleeps,
                   prevOutcome, rect, callerVars>>

\* run(): self._sleep_interval() before a continue
run_skip_sleep ==
    /\ pc = "skipsleep"
    /\ sleeps' = sleeps + 1
    /\ pc' = "sleep"
    /\ UNCHANGED <<envVars, cfgVars, clientVars, cacheVars, obsVars, resVars, flagVars, capture,
                   spanCount, text, shouldTranslate, translated, exc, events,
                   translateCalls, prevOutcome, rect, inFlight, callerVars>>

\* run(): finally: self._sleep_interval()
run_sleep ==
    /\ pc = "sleep"
    /\ sleeps' = sleeps + 1
    /\ pc' = "check"
    /\ UNCHANGED <<envVars, cfgVars, clientVars, cacheVars, obsVars, resVars, flagVars, capture,
                   spanCount, text, shouldTranslate, translated, exc, events,
                   translateCalls, prevOutcome, rect, inFlight, callerVars>>

\* ---------------------------------------------------------- specification
Init ==
    /\ InitEngine /\ InitObs /\ InitParts /\ InitSpeechIdle
    /\ managerConfig = DefaultConfig
    /\ easyocr \in BOOLEAN
    /\ ttl = EngineTTL

Next ==
    \/ start \/ start_ocr \/ stop \/ stop_join
    \/ run_check \/ run_capture \/ run_ocr \/ run_dedup \/ run_translate
    \/ run_skip_sleep \/ run_sleep
    \/ Tick

Spec == Init /\ [][Next]_vars

\* the engine with the user editing the configuration while it runs
InitConfig ==
    /\ InitEngine /\ InitObs /\ InitParts /\ InitSpeechIdle
    /\ managerConfig = DefaultConfig
    /\ easyocr = TRUE
    /\ ttl = EngineTTL

NextConfig ==
    \/ start \/ start_ocr \/ stop \/ stop_join
    \/ run_check \/ run_capture \/ run_ocr \/ run_dedup \/ run_translate
    \/ run_skip_sleep \/ run_sleep
    \/ update_config

SpecConfig == InitConfig /\ [][NextConfig]_vars

\* the engine with a run loop whose blocking calls all return: no step of
\* run() is postponed forever
LoopStep ==
    \/ run_check \/ run_capture \/ run_ocr \/ run_dedup \/ run_translate
    \/ run_skip_sleep \/ run_sleep

InitLive ==
    /\ InitEngine /\ InitObs /\ InitParts /\ InitSpeechIdle
    /\ managerConfig = DefaultConfig
    /\ easyocr = TRUE
    /\ ttl = EngineTTL

NextLive ==
    \/ start \/ start_ocr \/ stop \/ stop_join
    \/ run_check \/ run_capture \/ run_ocr \/ run_dedup \/ run_translate
    \/ run_skip_sleep \/ run_sleep

SpecLive == InitLive /\ [][NextLive]_vars /\ WF_vars(LoopStep)

\* the translation client alone
InitTranslate ==
    /\ InitEngine /\ InitObs /\ InitParts /\ InitSpeechIdle
    /\ managerConfig = DefaultConfig
    /\ easyocr = TRUE
    /\ ttl = EngineTTL

NextTranslate == translate_call

SpecTranslate == InitTranslate /\ [][NextTranslate]_vars

\* a screen capturer and an optical recognizer, each used alone
InitPartsAlone ==
    /\ InitEngine /\ InitObs /\ InitParts /\ InitSpeechIdle
    /\ managerConfig = DefaultConfig
    /\ easyocr \in BOOLEAN
    /\ ttl = EngineTTL

NextParts ==
    \/ cap_start \/ cap_stop \/ cap_capture
    \/ ocr_set_languages \/ ocr_start \/ ocr_stop \/ ocr_read_text

SpecParts == InitPartsAlone /\ [][NextParts]_vars

\* ------------------------------------------------------ speech recognizers
\* the record the model keeps of the latest start() call
StartCall(index, stage, raised, chosen) ==
    [index |-> index, stage |-> stage, raised |-> raised, chosen |-> chosen]

\* AudioProcessor.start / WhisperProcessor.start.  libsOk: pyaudio and vosk
\* were importable; modelOk: the model was found and loaded; openOk: the
\* stream opened (and, streaming, was active after 0.1 s).  The streaming
\* variant calls stop() on its failure path; the batched variant only clears
\* _running and keeps _pyaudio and _model.  device_index is what the
\* configuration holds for the input device.  A start that succeeds creates a
\* new consumer thread and lets go of the earlier one, which lives on until it
\* sees _running false; what such a thread does before it ends is left out.
speech_start ==
    /\ spCaller = "idle"
    /\ (spPc \in {"none", "done"} \/ spOrphans < MaxOrphans)
    /\ \E libsOk \in BOOLEAN, modelOk \in BOOLEAN, openOk \in BOOLEAN :
        LET index == spDeviceIndex
            sel == IF index = <<>>
                   THEN FindBlackholeDevice(spVariant, spDevices) ELSE index
            known == sel # <<>> /\ sel[1] \in 1..Len(spDevices)
            deviceOk == /\ known
                        /\ spDevices[sel[1]].channels >= 1
                        /\ (spVariant = "streaming"
                               => spDevices[sel[1]].rate # 0)
        IN
        IF spVariant = "streaming" /\ ~libsOk
        THEN /\ spStart' = <<StartCall(index, "libs", TRUE, <<>>)>>
             /\ UNCHANGED <<spRunning, spPyaudio, spModel, spRecognizer,
                            spStream, spPc, spOrphans, spQueue,
                            spLastPartial>>
        ELSE IF spRunning
        THEN /\ spStart' = <<StartCall(index, "running", FALSE, <<>>)>>
             /\ UNCHANGED <<spRunning, spPyaudio, spModel, spRecognizer,
                            spStream, spPc, spOrphans, spQueue,
                            spLastPartial>>
        ELSE IF ~modelOk
        THEN /\ spStart' = <<StartCall(index, "model", TRUE, <<>>)>>
             /\ spRunning' = FALSE
             /\ UNCHANGED <<spPyaudio, spModel, spRecognizer, spStream, spPc,
                            spOrphans, spQueue, spLastPartial>>
        ELSE IF ~(deviceOk /\ openOk)
        THEN /\ spStart' = <<StartCall(index, "device", TRUE, <<>>)>>
             /\ spRunning' = FALSE
             /\ spStream' = FALSE
             /\ IF spVariant = "streaming"
                THEN /\ spPyaudio' = FALSE /\ spModel' = FALSE
                     /\ spRecognizer' = FALSE /\ spLastPartial' = <<>>
                     /\ spQueue' = 0
                ELSE /\ spPyaudio' = TRUE /\ spModel' = TRUE
                     /\ UNCHANGED <<spRecognizer, spLastPartial, spQueue>>
             /\ UNCHANGED <<spPc, spOrphans>>
        ELSE /\ spStart' = <<StartCall(index, "device", FALSE, sel)>>
             /\ spRunning' = TRUE /\ spPyaudio' = TRUE /\ spModel' = TRUE
             /\ spRecognizer' = (spVariant = "streaming")
             /\ spStream' = TRUE
             /\ spPc' = "get"
             /\ spOrphans' = IF spPc \in {"none", "done"} THEN spOrphans
                             ELSE spOrphans + 1
             /\ UNCHANGED <<spQueue, spLastPartial>>
    /\ UNCHANGED <<otherVars, spDeviceIndex, spCaller, spJoinTimesOut, spVariant, spDevices,
                   spBuffer, spDelivered,
                   spTranscription, spStamp, spSerial, spProduced, spReturns,
                   wall, spRdPc, spRdTime, spRdResult, spRead>>

\* AudioProcessor.stop / WhisperProcessor.stop up to the join: the flag, the
\* stream, the library handle and the model.  The batched variant returns at
\* once when not running and clears _audio_buffer; the streaming variant has
\* no such guard and resets _recognizer and _last_partial_text.  Without a
\* live consumer thread there is no join and the queue is drained at once.
speech_stop ==
    /\ spCaller = "idle"
    /\ IF spVariant = "batched" /\ ~spRunning
       THEN UNCHANGED <<spRunning, spStream, spPyaudio, spModel, spRecognizer,
                        spLastPartial, spBuffer, spQueue, spCaller>>
       ELSE /\ spRunning' = FALSE /\ spStream' = FALSE /\ spPyaudio' = FALSE
            /\ spModel' = FALSE
            /\ IF spVariant = "streaming"
               THEN /\ spRecognizer' = FALSE /\ spLastPartial' = <<>>
                    /\ UNCHANGED spBuffer
               ELSE /\ spBuffer' = 0
                    /\ UNCHANGED <<spRecognizer, spLastPartial>>
            /\ IF spPc \in {"none", "done"}
               THEN spQueue' = 0 /\ UNCHANGED spCaller
               ELSE spCaller' = "joining" /\ UNCHANGED spQueue
    /\ UNCHANGED <<otherVars, spDeviceIndex, spJoinTimesOut, spOrphans, spVariant, spDevices,
                   spPc, spDelivered, spStart, spTranscription, spStamp,
                   spSerial, spProduced, spReturns, wall, spRdPc, spRdTime,
                   spRdResult, spRead>>

\* stop(): self._thread.join(timeout=2.0) returns, because the consumer
\* thread has ended or because the two seconds are over, and the queue is
\* drained
speech_join ==
    /\ spCaller = "joining"
    /\ (spPc \in {"none", "done"} \/ spJoinTimesOut)
    /\ spCaller' = "idle"
    /\ spQueue' = 0
    /\ UNCHANGED <<otherVars, spDeviceIndex, spJoinTimesOut, spOrphans, spVariant, spDevices,
                   spRunning, spPyaudio, spModel, spRecognizer, spStream, spPc,
                   spBuffer, spDelivered, spLastPartial, spTranscription,
                   spStamp, spSerial, spProduced, spReturns, wall, spRdPc,
                   spRdTime, spRdResult, spStart, spRead>>

\* _audio_callback, called by the audio driver while the stream is open:
\* put_nowait when running and the chunk is non-empty, the chunk is dropped
\* when the queue is full
speech_callback ==
    /\ spStream
    /\ spDelivered < MaxChunks
    /\ spDelivered' = spDelivered + 1
    /\ \E nonEmpty \in BOOLEAN :
        IF spRunning /\ nonEmpty /\ ~QueueFull(spVariant, spQueue)
        THEN spQueue' = spQueue + 1
        ELSE UNCHANGED spQueue
    /\ UNCHANGED <<otherVars, spDeviceIndex, spCaller, spJoinTimesOut, spOrphans, spVariant,
                   spDevices, spRunning, spPyaudio,
                   spModel, spRecognizer, spStream, spPc, spBuffer,
                   spLastPartial, spTranscription, spStamp, spSerial,
                   spProduced, spReturns, wall, spRdPc, spRdTime, spRdResult,
                   spStart, spRead>>

\* _process_audio, loop test and queue.get: the loop ends when _running is
\* false; an empty queue times out and the loop tests again
consumer_get ==
    /\ spPc = "get"
    /\ IF ~spRunning
       THEN spPc' = "done" /\ UNCHANGED spQueue
       ELSE /\ spQueue > 0
            /\ spQueue' = spQueue - 1
            /\ spPc' = "append"
    /\ UNCHANGED <<otherVars, spDeviceIndex, spCaller, spJoinTimesOut, spOrphans, spVariant,
                   spDevices, spRunning, spPyaudio,
                   spModel, spRecognizer, spStream, spBuffer, spDelivered,
                   spLastPartial, spTranscription, spStamp, spSerial,
                   spProduced, spReturns, wall, spRdPc, spRdTime, spRdResult,
                   spStart, spRead>>

\* _process_audio of a thread of an earlier run: while self._running fails
orphan_exit ==
    /\ spOrphans > 0
    /\ ~spRunning
    /\ spOrphans' = spOrphans - 1
    /\ UNCHANGED <<otherVars, spDeviceIndex, spCaller, spJoinTimesOut, spVariant, spDevices,
                   spRunning, spPyaudio,
                   spModel, spRecognizer, spStream, spPc, spQueue, spBuffer,
                   spDelivered, spLastPartial, spTranscription, spStamp,
                   spSerial, spProduced, spReturns, wall, spRdPc, spRdTime,
                   spRdResult, spStart, spRead>>

\* a consumer that transcribes only once the buffer exceeds BufferSeconds
consumer_append_late ==
    /\ spPc = "append"
    /\ IF spVariant = "streaming"
       THEN spPc' = "get" /\ UNCHANGED spBuffer
       ELSE /\ spBuffer' = spBuffer + 1
            /\ spPc' = IF spBuffer' * ChunkSize > BufferSeconds * SampleRate
                       THEN "transcribe" ELSE "get"
    /\ UNCHANGED <<otherVars, spDeviceIndex, spCaller, spJoinTimesOut, spOrphans, spVariant,
                   spDevices, spRunning, spPyaudio,
                   spModel, spRecognizer, spStream, spQueue, spDelivered,
                   spLastPartial, spTranscription, spStamp, spSerial,
                   spProduced, spReturns, wall, spRdPc, spRdTime, spRdResult,
                   spStart, spRead>>

\* _process_audio, the chunk taken from the queue: the streaming variant
\* feeds it to the recognizer, the batched variant appends it to
\* _audio_buffer and transcribes once the buffer holds BufferSeconds of audio
consumer_append ==
    /\ spPc = "append"
    /\ IF spVariant = "streaming"
       THEN spPc' = "get" /\ UNCHANGED spBuffer
       ELSE /\ spBuffer' = spBuffer + 1
            /\ spPc' = IF spBuffer' * ChunkSize >= BufferSeconds * SampleRate
                       THEN "transcribe" ELSE "get"
    /\ UNCHANGED <<otherVars, spDeviceIndex, spCaller, spJoinTimesOut, spOrphans, spVariant,
                   spDevices, spRunning, spPyaudio,
                   spModel, spRecognizer, spStream, spQueue, spDelivered,
                   spLastPartial, spTranscription, spStamp, spSerial,
                   spProduced, spReturns, wall, spRdPc, spRdTime, spRdResult,
                   spStart, spRead>>

\* _transcribe_buffer up to the assignment of _last_transcription: nothing
\* without a model or with an empty buffer; the model raises, returns no text
\* or returns a text, which gets the next serial number
consumer_transcribe ==
    /\ spPc = "transcribe"
    /\ IF ~spModel \/ spBuffer = 0
       THEN /\ spPc' = "clear"
            /\ UNCHANGED <<spTranscription, spSerial>>
       ELSE \E outcome \in {"raise", "empty", "text"} :
            IF outcome = "text" /\ spSerial < MaxTranscriptions
            THEN /\ spSerial' = spSerial + 1
                 /\ spTranscription' = <<spSerial + 1>>
                 /\ spPc' = "stamp"
            ELSE /\ spPc' = "clear"
                 /\ UNCHANGED <<spTranscription, spSerial>>
    /\ UNCHANGED <<otherVars, spDeviceIndex, spCaller, spJoinTimesOut, spOrphans, spVariant,
                   spDevices, spRunning, spPyaudio,
                   spModel, spRecognizer, spStream, spQueue, spBuffer,
                   spDelivered, spLastPartial, spStamp, spProduced, spReturns,
                   wall, spRdPc, spRdTime, spRdResult, spStart, spRead>>

\* _transcribe_buffer, _last_transcription_time = time.time()
consumer_stamp ==
    /\ spPc = "stamp"
    /\ spStamp' = wall
    /\ spProduced' = [spProduced EXCEPT ![spSerial] = <<wall>>]
    /\ spPc' = "clear"
    /\ UNCHANGED <<otherVars, spDeviceIndex, spCaller, spJoinTimesOut, spOrphans, spVariant,
                   spDevices, spRunning, spPyaudio,
                   spModel, spRecognizer, spStream, spQueue, spBuffer,
                   spDelivered, spLastPartial, spTranscription, spSerial,
                   spReturns, wall, spRdPc, spRdTime, spRdResult, spStart,
                   spRead>>

\* _process_audio, _audio_buffer.clear() after _transcribe_buffer returned
consumer_clear ==
    /\ spPc = "clear"
    /\ spBuffer' = 0
    /\ spPc' = "get"
    /\ UNCHANGED <<otherVars, spDeviceIndex, spCaller, spJoinTimesOut, spOrphans, spVariant,
                   spDevices, spRunning, spPyaudio,
                   spModel, spRecognizer, spStream, spQueue, spDelivered,
                   spLastPartial, spTranscription, spStamp, spSerial,
                   spProduced, spReturns, wall, spRdPc, spRdTime, spRdResult,
                   spStart, spRead>>

\* the record the model keeps of the latest read_text() call that returned
ReadCall(time, final, partial, last, active, result) ==
    [time |-> time, final |-> final, partial |-> partial, last |-> last,
     active |-> active, result |-> result]
NoString == [kind |-> "empty", text |-> <<>>]

\* WhisperProcessor.read_text, current_time = time.time() and the first
\* operand of the test, the truth value of _last_transcription
whisper_read_begin ==
    /\ spVariant = "batched"
    /\ spRdPc = "idle"
    /\ spRdTime' = wall
    /\ IF spTranscription # <<>>
       THEN spRdPc' = "window" /\ UNCHANGED spRead
       ELSE /\ spRdPc' = "idle"
            /\ spRead' = <<ReadCall(wall, NoString, NoString, <<>>, spRunning,
                                    <<>>)>>
    /\ UNCHANGED <<otherVars, spDeviceIndex, spCaller, spJoinTimesOut, spOrphans, spVariant,
                   spDevices, spRunning, spPyaudio,
                   spModel, spRecognizer, spStream, spPc, spQueue, spBuffer,
                   spDelivered, spLastPartial, spTranscription, spStamp,
                   spSerial, spProduced, spReturns, wall, spRdResult, spStart>>

\* read_text accepting a transcription whose age equals the window
whisper_read_window_inclusive ==
    /\ spRdPc = "window"
    /\ IF spRdTime - spStamp <= ValidityWindow
       THEN spRdPc' = "append" /\ UNCHANGED spRead
       ELSE /\ spRdPc' = "idle"
            /\ spRead' = <<ReadCall(spRdTime, NoString, NoString, <<>>,
                                    spRunning, <<>>)>>
    /\ UNCHANGED <<otherVars, spDeviceIndex, spCaller, spJoinTimesOut, spOrphans, spVariant,
                   spDevices, spRunning, spPyaudio,
                   spModel, spRecognizer, spStream, spPc, spQueue, spBuffer,
                   spDelivered, spLastPartial, spTranscription, spStamp,
                   spSerial, spProduced, spReturns, wall, spRdTime, spRdResult,
                   spStart>>

\* WhisperProcessor.read_text, the second operand of the test:
\* current_time - _last_transcription_time < 10.0
whisper_read_window ==
    /\ spRdPc = "window"
    /\ IF spRdTime - spStamp < ValidityWindow
       THEN spRdPc' = "append" /\ UNCHANGED spRead
       ELSE /\ spRdPc' = "idle"
            /\ spRead' = <<ReadCall(spRdTime, NoString, NoString, <<>>,
                                    spRunning, <<>>)>>
    /\ UNCHANGED <<otherVars, spDeviceIndex, spCaller, spJoinTimesOut, spOrphans, spVariant,
                   spDevices, spRunning, spPyaudio,
                   spModel, spRecognizer, spStream, spPc, spQueue, spBuffer,
                   spDelivered, spLastPartial, spTranscription, spStamp,
                   spSerial, spProduced, spReturns, wall, spRdTime, spRdResult,
                   spStart>>

\* WhisperProcessor.read_text, results.append(AudioResult(text=
\* self._last_transcription, ...)): the text is read again here
whisper_read_append ==
    /\ spRdPc = "append"
    /\ spRdResult' = spTranscription
    /\ spRdPc' = "clear"
    /\ UNCHANGED <<otherVars, spDeviceIndex, spCaller, spJoinTimesOut, spOrphans, spVariant,
                   spDevices, spRunning, spPyaudio,
                   spModel, spRecognizer, spStream, spPc, spQueue, spBuffer,
                   spDelivered, spLastPartial, spTranscription, spStamp,
                   spSerial, spProduced, spReturns, wall, spRdTime, spStart,
                   spRead>>

\* WhisperProcessor.read_text, _last_transcription = "" and the return
whisper_read_clear ==
    /\ spRdPc = "clear"
    /\ spTranscription' = <<>>
    /\ spReturns' = [n \in DOMAIN spReturns |->
                        IF spRdResult = <<n>> /\ spReturns[n] < 2
                        THEN spReturns[n] + 1 ELSE spReturns[n]]
    /\ spRead' = <<ReadCall(spRdTime, NoString, NoString, <<>>, spRunning,
                            spRdResult)>>
    /\ spRdResult' = <<>>
    /\ spRdPc' = "idle"
    /\ UNCHANGED <<otherVars, spDeviceIndex, spCaller, spJoinTimesOut, spOrphans, spVariant,
                   spDevices, spRunning, spPyaudio,
                   spModel, spRecognizer, spStream, spPc, spQueue, spBuffer,
                   spDelivered, spLastPartial, spStamp, spSerial, spProduced,
                   wall, spRdTime, spStart>>

\* AudioProcessor.read_text: nothing unless the recognizer exists and the
\* processor runs; a non-empty Result() string is parsed and its stripped
\* text returned when non-empty and different from _last_partial_text;
\* PartialResult() is consulted only when Result() returned the empty string
AudioReadText(final, partial, last, active) ==
    LET finalText == Strip(final.text)
        partialText == Strip(partial.text)
        nothing == [result |-> <<>>, last |-> last]
    IN
    IF ~active THEN nothing
    ELSE IF final.kind # "empty"
    THEN IF final.kind = "json" /\ finalText # <<>> /\ finalText # last
         THEN [result |-> <<finalText>>, last |-> finalText]
         ELSE nothing
    ELSE IF partial.kind = "json" /\ partialText # <<>> /\ partialText # last
            /\ EndsWithTerminator(partialText)
         THEN [result |-> <<partialText>>, last |-> partialText]
         ELSE nothing
audio_read_text ==
    /\ spVariant = "streaming"
    /\ \E final \in RecognizerStrings, partial \in RecognizerStrings :
        LET active == spRecognizer /\ spRunning
            out == AudioReadText(final, partial, spLastPartial, active)
        IN /\ spLastPartial' = out.last
           /\ spRead' = <<ReadCall(wall, final, partial, spLastPartial, active,
                                   out.result)>>
    /\ UNCHANGED <<otherVars, spDeviceIndex, spCaller, spJoinTimesOut, spOrphans, spVariant,
                   spDevices, spRunning, spPyaudio,
                   spModel, spRecognizer, spStream, spPc, spQueue, spBuffer,
                   spDelivered, spTranscription, spStamp, spSerial, spProduced,
                   spReturns, wall, spRdPc, spRdTime, spRdResult, spStart>>

\* time.time() moves on
advance_wall ==
    /\ wall + WallStep <= WallStart + MaxWallSteps * WallStep
    /\ wall' = wall + WallStep
    /\ UNCHANGED <<otherVars, spDeviceIndex, spCaller, spJoinTimesOut, spOrphans, spVariant,
                   spDevices, spRunning, spPyaudio,
                   spModel, spRecognizer, spStream, spPc, spQueue, spBuffer,
                   spDelivered, spLastPartial, spTranscription, spStamp,
                   spSerial, spProduced, spReturns, spRdPc, spRdTime,
                   spRdResult, spStart, spRead>>

\* ---------------------------------------------- speech recognizers alone
\* start() and stop() over every enumeration of devices
InitSpeechStart ==
    /\ InitEngine /\ InitObs /\ InitParts /\ InitRecognizer
    /\ managerConfig = DefaultConfig
    /\ easyocr = TRUE
    /\ ttl = EngineTTL
    /\ spVariant \in Variants
    /\ spDevices \in DeviceLists
    /\ spDeviceIndex \in {<<>>} \cup {<<i>> : i \in 1..(Len(spDevices) + 1)}
    /\ spJoinTimesOut = TRUE
NextSpeechStart ==
    \/ speech_start
    \/ speech_stop
    \/ speech_join
SpecSpeechStart == InitSpeechStart /\ [][NextSpeechStart]_vars

\* a recognizer of either variant with one loopback device, its driver
\* callback, its consumer thread and the batched variant's polled
\* read_text(); the consumer ends within the time stop() waits for it
InitSpeech ==
    /\ InitEngine /\ InitObs /\ InitParts /\ InitRecognizer
    /\ managerConfig = DefaultConfig
    /\ easyocr = TRUE
    /\ ttl = EngineTTL
    /\ spVariant \in Variants
    /\ spDevices = LoopbackOnly
    /\ spJoinTimesOut = FALSE
    /\ spDeviceIndex = <<>>
NextSpeech ==
    \/ speech_start
    \/ speech_stop
    \/ speech_join
    \/ speech_callback
    \/ consumer_get
    \/ consumer_append
    \/ consumer_transcribe
    \/ consumer_stamp
    \/ consumer_clear
    \/ whisper_read_begin
    \/ whisper_read_window
    \/ whisper_read_append
    \/ whisper_read_clear
    \/ advance_wall
SpecSpeech == InitSpeech /\ [][NextSpeech]_vars

\* the streaming recognizer started, stopped and polled
InitRecognize ==
    /\ InitEngine /\ InitObs /\ InitParts /\ InitRecognizer
    /\ managerConfig = DefaultConfig
    /\ easyocr = TRUE
    /\ ttl = EngineTTL
    /\ spVariant = "streaming"
    /\ spDevices = LoopbackOnly
    /\ spDeviceIndex = <<>>
    /\ spJoinTimesOut = TRUE
NextRecognize ==
    \/ speech_start
    \/ speech_stop
    \/ speech_join
    \/ audio_read_text
SpecRecognize == InitRecognize /\ [][NextRecognize]_vars

\* the consumer threads of a recognizer of either variant over start() and
\* stop() calls, with a consumer that may outlast the join in stop()
InitSpeechThreads ==
    /\ InitEngine /\ InitObs /\ InitParts /\ InitRecognizer
    /\ managerConfig = DefaultConfig
    /\ easyocr = TRUE
    /\ ttl = EngineTTL
    /\ spVariant \in Variants
    /\ spDevices = LoopbackOnly
    /\ spDeviceIndex = <<>>
    /\ spJoinTimesOut = TRUE
NextSpeechThreads ==
    \/ speech_start
    \/ speech_stop
    \/ speech_join
    \/ speech_callback
    \/ consumer_get
    \/ consumer_append
    \/ orphan_exit
SpecSpeechThreads == InitSpeechThreads /\ [][NextSpeechThreads]_vars


\* ----------------------------------------------------------------- claims
\* events of one kind in the current iteration
OfKind(kind) == {i \in 1..Len(events) : events[i].kind = kind}

\* events of one kind carrying one argument
OfKindWith(kind, arg) == {i \in OfKind(kind) : events[i].arg = arg}

\* what start() can raise because of the environment
EnvErrors == {"capturer_start", "easyocr_missing", "reader_init"}

\* the iteration in the state captured a frame, merged a non-empty text,
\* was told to translate it and got a result back
TranslatedCycle ==
    /\ exc = "none" /\ capture = "frame"
    /\ text # <<>> /\ text[1] # <<>>
    /\ shouldTranslate = "yes" /\ translated # <<>>

\* C1: a cycle that captures a frame, recognizes a non-empty merged text T
\* that should_translate accepts, and whose translation returns R emits
\* text-detected(T) once, calls the translation client exactly once, with T,
\* and emits translation-ready(R) exactly once.
C1_TranslatedCycleEvents ==
    TranslatedCycle =>
        /\ Cardinality(OfKindWith("ocr_text_detected", text[1])) = 1
        /\ Cardinality(OfKind("ocr_text_detected")) = 1
        /\ translateCalls = <<text[1]>>
        /\ Cardinality(OfKindWith("translation_ready", translated[1])) = 1
        /\ Cardinality(OfKind("translation_ready")) = 1

C1_Witness ==
    /\ TranslatedCycle /\ pc = "check"
    /\ prevOutcome = "none"
    /\ text[1] = <<"a">> /\ translated[1] = <<"x">>

\* C2: when the translation client raises in a cycle, that cycle emits one
\* error event and neither translation-received nor translation-ready; the
\* loop then starts another iteration if the engine is still running, and a
\* later cycle whose translation succeeds emits translation-ready.
C2_State ==
    /\ exc = "translate" =>
        /\ Cardinality(OfKind("engine_error")) = 1
        /\ OfKind("translation_received") = {}
        /\ OfKind("translation_ready") = {}
        /\ pc \in {"sleep", "check", "exited"}
    /\ (prevOutcome = "error_translate" /\ TranslatedCycle) =>
        Cardinality(OfKindWith("translation_ready", translated[1])) = 1

C4_SingleLoop ==
    /\ aliveLoops = (IF IsAlive THEN 1 ELSE 0)
    /\ inFlight = (IF pc = "translate" THEN 1 ELSE 0)

C4_Witness ==
    /\ lastOp = "start_noop"
    /\ startCtx = "alive"
    /\ aliveLoops = 1 /\ inFlight = 1

\* C5: the join of stop() can always return, whatever the run loop is doing,
\* and once stop() has returned from a Running engine is_running is false.
C5_StopReturnsIdle ==
    /\ callerPc = "joining" => ENABLED stop_join
    /\ lastOp = "stop" => ~running

C5_Witness ==
    /\ lastOp = "stop" /\ callerPc = "idle"
    /\ pc = "translate"
    /\ ~running

\* C6: after stop() on a Running engine, and until a later start(), the
\* loop's continuation test never starts another iteration.
C6_NoIterationAfterStop ==
    [][ (lastOp = "stop" /\ pc = "check") => pc' \in {"check", "exited"} ]_vars

C6_Witness ==
    /\ lastOp = "stop" /\ callerPc = "idle"
    /\ pc = "exited"
    /\ sct

\* C7: a start() made after the run loop of a stopped run has exited, and
\* not failing for a reason of the environment, raises nothing, leaves the
\* engine Running and has a run loop alive.
C7_Restartable ==
    (lastOp = "start" /\ callerPc = "idle" /\ startCtx = "exited"
        /\ lastError \notin EnvErrors)
    => (lastError = "none" /\ running /\ IsAlive)

\* C8: a start() that raised because the frame source or the recognizer
\* could not be started leaves is_running false and no run loop started.
C8_FailedStartStaysIdle ==
    (lastOp = "start" /\ callerPc = "idle"
        /\ lastError \in EnvErrors \cup {"set_languages"})
    => (~running /\ (startCtx # "alive" => ~IsAlive))

\* the latest two calls were made one right after the other, with the same
\* non-empty normalized text
SameTextCalls ==
    /\ lastCall # <<>> /\ markedCall # <<>>
    /\ markedCall[1].norm # <<>>
    /\ Normalize(lastCall[1].text) = markedCall[1].norm

\* C9: two should_translate calls in immediate succession, with the same
\* non-empty normalized text, the first made on a cache with no entry or
\* with another stored text, and no more than the TTL between them, return
\* true then false.
C9_TrueThenFalse ==
    (SameTextCalls /\ consecutive /\ markedCall[1].novel
        /\ lastCall[1].time - markedCall[1].time <= ttl)
    => (markedCall[1].ret /\ ~lastCall[1].ret)

C9_Witness ==
    /\ SameTextCalls /\ consecutive /\ markedCall[1].novel
    /\ lastCall[1].time - markedCall[1].time = ttl
    /\ lastCall[1].text # markedCall[1].norm
    /\ markedCall[1].ret /\ ~lastCall[1].ret

\* C10: a should_translate call with the same normalized text as an earlier
\* call that returned true at t0 (no call in between having accepted that
\* text again), made more than the TTL after t0, returns true and leaves an
\* entry stamped with the time of the later call.
C10_TrueAfterTtl ==
    (SameTextCalls /\ markedCall[1].ret
        /\ lastCall[1].time - markedCall[1].time > ttl)
    => /\ lastCall[1].ret
       /\ cacheEntry = <<[text |-> markedCall[1].norm,
                          timestamp |-> lastCall[1].time]>>

C10_Witness ==
    /\ SameTextCalls /\ markedCall[1].ret /\ ~consecutive
    /\ lastCall[1].time - markedCall[1].time > ttl
    /\ lastCall[1].ret
    /\ cacheEntry[1].timestamp = lastCall[1].time


\* C11: a should_translate call whose input normalizes to the empty text
\* (empty or whitespace only) returns false and leaves the entry as it was:
\* absent if it was absent, with the same text and timestamp otherwise.
C11_EmptyInputNoEffect ==
    (lastCall # <<>> /\ Words(lastCall[1].text) = <<>>)
    => (~lastCall[1].ret /\ cacheEntry = lastCall[1].before)

C11_Witness ==
    /\ lastCall # <<>> /\ lastCall[1].text = <<" ", " ">>
    /\ lastCall[1].before # <<>>
    /\ lastCall[1].time - lastCall[1].before[1].timestamp > ttl
    /\ ~lastCall[1].ret /\ cacheEntry = lastCall[1].before

\* C12: when a call has accepted a text, the next call, made within the TTL
\* with an input that differs from the first only in leading or trailing
\* whitespace or in its inner whitespace runs, returns false and leaves the
\* entry as it was.
C12_WhitespaceInsensitive ==
    (lastCall # <<>> /\ markedCall # <<>> /\ consecutive
        /\ markedCall[1].ret
        /\ Words(lastCall[1].text) = markedCall[1].words
        /\ lastCall[1].time - markedCall[1].time <= ttl)
    => (~lastCall[1].ret /\ cacheEntry = lastCall[1].before)

C12_Witness ==
    /\ lastCall # <<>> /\ markedCall # <<>> /\ consecutive
    /\ markedCall[1].ret
    /\ lastCall[1].text = <<"a", " ", " ", "a">>
    /\ markedCall[1].words = <<(<<"a">>), (<<"a">>)>>
    /\ lastCall[1].before = <<[text |-> <<"a", " ", "a">>,
                               timestamp |-> markedCall[1].time]>>
    /\ ~lastCall[1].ret /\ cacheEntry = lastCall[1].before

\* C13: a should_translate call made while an entry exists, with an input
\* whose normalized form is non-empty and differs from the stored text,
\* returns true whatever time has passed and leaves the entry holding the
\* new normalized text and the time of the call.
C13_DifferentTextAccepted ==
    (lastCall # <<>> /\ lastCall[1].before # <<>>
        /\ Normalize(lastCall[1].text) # <<>>
        /\ Normalize(lastCall[1].text) # lastCall[1].before[1].text)
    => /\ lastCall[1].ret
       /\ cacheEntry = <<[text |-> Normalize(lastCall[1].text),
                          timestamp |-> lastCall[1].time]>>

C13_Witness ==
    /\ lastCall # <<>> /\ lastCall[1].before # <<>>
    /\ Normalize(lastCall[1].text) # <<>>
    /\ Normalize(lastCall[1].text) # lastCall[1].before[1].text
    /\ lastCall[1].time = lastCall[1].before[1].timestamp
    /\ lastCall[1].ret

\* the iteration in the state got no frame, or a frame whose recognized
\* spans (none, or whitespace only) merge to the empty text
SkippedCycle ==
    /\ exc = "none"
    /\ \/ capture = "none"
       \/ capture = "frame" /\ text # <<>> /\ text[1] = <<>>

C14_State ==
    SkippedCycle =>
        /\ events = <<>>
        /\ shouldTranslate = "unset"
        /\ translateCalls = <<>> /\ translated = <<>>
        /\ pc \in {"skipsleep", "sleep", "check", "exited"}

\* C14: a cycle in which capture returns None, or whose spans merge to the
\* empty text, emits no event at all (no text-detected, no error), does not
\* call should_translate, leaves the cache entry as it was and calls no
\* translation; it goes to the interval wait, and the loop then starts the
\* next iteration if the engine is still running.
C14_SkippedCycleSilent ==
    [][ /\ C14_State'
        /\ SkippedCycle' => cacheEntry' = cacheEntry
        /\ (SkippedCycle /\ pc = "check" /\ running /\ ~stopEvent
                /\ pc' # pc) => pc' = "capture" ]_vars

C14_Witness ==
    /\ SkippedCycle /\ capture = "frame" /\ spanCount > 0
    /\ prevOutcome = "translated" /\ cacheEntry # <<>>
    /\ pc = "check" /\ sleeps > 0

\* the four events of a translation
TranslationKinds ==
    {"ocr_text_detected", "translation_requested", "translation_received",
     "translation_ready"}

C15_State ==
    /\ \A k \in TranslationKinds : Cardinality(OfKind(k)) <= 1
    /\ \A q \in OfKind("translation_requested") :
        \E d \in OfKind("ocr_text_detected") :
            d < q /\ events[d].arg = events[q].arg
    /\ \A r \in OfKind("translation_received") :
        \E q \in OfKind("translation_requested") : q < r
    /\ \A y \in OfKind("translation_ready") :
        \E r \in OfKind("translation_received") :
            r < y /\ events[r].arg = events[y].arg
    /\ TranslatedCycle =>
        /\ OfKindWith("ocr_text_detected", text[1]) # {}
        /\ OfKindWith("translation_ready", translated[1]) # {}

\* C15: in every cycle the events of a translation come in the order
\* text-detected(T), translation-requested, translation-received(R),
\* translation-ready(R), each at most once and with the same R; a translate
\* call that returns a result has its translation-ready emitted in the step
\* it returns, and a text is detected only when no translation call of an
\* earlier text is outstanding.
C15_DetectionOrder ==
    [][ /\ C15_State'
        /\ (inFlight' < inFlight /\ exc' = "none") =>
            OfKind("translation_ready")' # {}
        /\ (OfKind("ocr_text_detected")' # {} /\ OfKind("ocr_text_detected") = {})
            => (inFlight = 0 /\ events = <<>>) ]_vars

C15_Witness ==
    /\ TranslatedCycle /\ prevOutcome = "translated"
    /\ pc = "sleep"
    /\ Len(events) = 5

\* C16: when an iteration is over and the loop is back at its continuation
\* test, the interval wait has been made exactly once in that iteration.
C16_WaitsOnce ==
    (pc = "check" /\ (capture # "unset" \/ exc # "none")) => sleeps = 1

\* C17: a configuration update changes nothing the engine holds (snapshot,
\* interval, the translation client's API settings) and nothing the
\* iteration in progress read; the snapshot is replaced only by a start()
\* on an engine that is not running, the interval and the client only
\* inside such a start(); and the loop reads its region and its source
\* language from the snapshot.
C17_SnapshotAtStart ==
    [][ /\ managerConfig' # managerConfig =>
            UNCHANGED <<activeConfig, interval, apiConfig, rect, events>>
        /\ activeConfig' # activeConfig =>
            (~running /\ callerPc = "idle" /\ lastOp' = "start")
        /\ <<interval, apiConfig>>' # <<interval, apiConfig>> =>
            /\ callerPc = "starting"
            /\ interval' = <<activeConfig[1].interval_ms>>
            /\ apiConfig' = <<activeConfig[1].api>>
        /\ (pc = "capture" /\ pc' # pc) =>
            rect' = <<activeConfig[1].source_region>>
        /\ (pc = "dedup" /\ OfKind("language_detected")' # {}) =>
            \A i \in OfKind("language_detected")' :
                events'[i].arg = <<activeConfig[1].source_language>> ]_vars

C17_Witness ==
    /\ running /\ lastOp = "start" /\ callerPc = "idle"
    /\ activeConfig = <<EditedConfig>> /\ managerConfig = DefaultConfig
    /\ interval = <<MinIntervalMs>> /\ apiConfig = <<EditedConfig.api>>
    /\ pc = "translate" /\ rect = <<"selected">>
    /\ OfKindWith("language_detected", <<"ja">>) # {}
    /\ prevOutcome = "skip_capture"

\* C18: a stop() made while the engine is not running raises nothing and
\* changes nothing: the flags, the capturer's grabber, the recognizer's
\* reader and the run loop are as before, and the caller does not wait in a
\* join.
C18_StopIdleNoop ==
    [][ (~running /\ callerPc = "idle" /\ lastOp' \in {"stop", "stop_noop"}
            /\ lastOp' # lastOp)
        => /\ lastOp' = "stop_noop" /\ lastError' = "none"
           /\ callerPc' = "idle"
           /\ UNCHANGED <<envVars, cacheVars, obsVars, resVars, flagVars,
                          loopVars, startCtx, cfgVars, clientVars>> ]_vars

C18_Witness ==
    /\ lastOp = "stop_noop" /\ lastError = "none"
    /\ thrStarted /\ pc = "exited"
    /\ ~running /\ stopEvent

\* C19: a translate call posts exactly one request, carrying the text; when
\* the network fails, the status is not 2xx or the body lacks
\* choices[0].message.content it raises and returns nothing; it returns a
\* result, the stripped content, only when none of the three failed.
C19_OneRequestNoRetry ==
    trCall # <<>> =>
        /\ Len(trCall[1].requests) = 1
        /\ trCall[1].requests[1].content = trCall[1].text
        /\ trCall[1].kind \in {"neterr", "status", "malformed"} =>
            (trCall[1].raised /\ trCall[1].result = <<>>)
        /\ trCall[1].kind = "ok" =>
            (~trCall[1].raised /\ trCall[1].result # <<>>)

C19_Witness ==
    /\ trCall # <<>> /\ trCall[1].kind = "malformed"
    /\ trCall[1].raised /\ trCall[1].result = <<>>
    /\ Len(trCall[1].requests) = 1

\* the messages that reached the logger in the latest translate call
LoggedMessages == {trCall[1].logs[i] : i \in 1..Len(trCall[1].logs)}

\* the latest translate call was made with a key configured
HasKey == trCall[1].api.api_key \notin {<<>>, <<(<<>>)>>}

\* C20: the request of a translate call carries the Authorization header,
\* with the configured key as bearer token, exactly when a key is
\* configured; without a key the request is still posted, the logger (when
\* the client has one) receives the no-key warning, and the call raises only
\* for a failed response.
C20_BearerIffKey ==
    trCall # <<>> =>
        /\ Len(trCall[1].requests) = 1
        /\ ("Authorization" \in trCall[1].requests[1].headers) <=> HasKey
        /\ HasKey => trCall[1].requests[1].bearer = trCall[1].api.api_key
        /\ ~HasKey =>
            /\ (trCall[1].logger => "warning_no_key" \in LoggedMessages)
            /\ (trCall[1].raised <=> trCall[1].kind # "ok")

C20_Witness ==
    /\ trCall # <<>> /\ trCall[1].api.api_key = <<>>
    /\ trCall[1].logger /\ "warning_no_key" \in LoggedMessages
    /\ trCall[1].requests[1].headers = {"Content-Type"}
    /\ ~trCall[1].raised /\ trCall[1].result = <<(<<"y">>)>>

\* C28: an iteration in which the recognizer, its reader already built,
\* raises during inference emits no event and goes to the interval wait as
\* an iteration with an empty text does.
C28_RecognitionErrorSilent ==
    [][ (pc = "ocr" /\ reader /\ exc' = "ocr")
        => (events' = events /\ pc' \in {"skipsleep", "sleep"}) ]_vars

\* C29: once stop() has returned and the run loop has exited, the capturer
\* holds no grabber and the recognizer holds no reader.
C29_ReleasedAfterStop ==
    (lastOp = "stop" /\ callerPc = "idle" /\ pc = "exited")
    => (~sct /\ ~reader)

\* C30: a should_translate call made while an entry exists, with an input
\* whose normalized form equals the stored text, at most the TTL after the
\* stored timestamp (the TTL exactly included), returns false and leaves
\* the entry, timestamp included, as it was.
C30_SameTextWithinTtl ==
    (lastCall # <<>> /\ lastCall[1].before # <<>>
        /\ Normalize(lastCall[1].text) = lastCall[1].before[1].text
        /\ lastCall[1].time - lastCall[1].before[1].timestamp <= ttl)
    => (~lastCall[1].ret /\ cacheEntry = lastCall[1].before)

C30_Witness ==
    /\ lastCall # <<>> /\ lastCall[1].before # <<>>
    /\ Normalize(lastCall[1].text) = lastCall[1].before[1].text
    /\ lastCall[1].time - lastCall[1].before[1].timestamp = ttl
    /\ markedCall # <<>> /\ consecutive /\ ~markedCall[1].ret
    /\ markedCall[1].norm = lastCall[1].before[1].text
    /\ markedCall[1].time > lastCall[1].before[1].timestamp
    /\ ~lastCall[1].ret /\ cacheEntry = lastCall[1].before

\* C21: a capturer used through start(), capture() and stop() holds at most
\* one grabber handle, none that it has lost track of; stop() raises nothing
\* and leaves no handle open, whatever the state it is called in.
C21_OneGrabber ==
    /\ capOpen = (IF capSct THEN 1 ELSE 0)
    /\ (capLast # <<>> /\ capLast[1].op = "stop") =>
        (~capLast[1].raised /\ capOpen = 0 /\ ~capSct)

C21_Witness ==
    /\ capLast # <<>> /\ capLast[1].op = "start" /\ capLast[1].held
    /\ ~capLast[1].raised /\ capSct /\ capOpen = 1

\* C22: set_languages on a recognizer whose reader exists raises and leaves
\* the language list as it was; on one without a reader it raises nothing
\* and the list becomes the one given.
C22_SetLanguagesGuarded ==
    (ocrLast # <<>> /\ ocrLast[1].op = "set_languages") =>
        IF ocrLast[1].held
        THEN ocrLast[1].raised /\ ocrLanguages = ocrLast[1].before
        ELSE ~ocrLast[1].raised /\ ocrLanguages = ocrLast[1].arg

C22_Witness ==
    /\ ocrLast # <<>> /\ ocrLast[1].op = "set_languages"
    /\ ocrLast[1].held /\ ocrLast[1].raised
    /\ ocrLast[1].arg = <<"en">> /\ ocrLanguages = <<"ko", "en">>

\* C23: when no device index is given, start() of a speech recognizer of
\* either variant selects a device whose name carries the loopback signature
\* and that has input channels; start() raises and leaves the recognizer not
\* running when no such device exists, and never succeeds on a selected or
\* explicitly given device that reports zero input channels or a zero sample
\* rate.  (The batched variant does not look at the sample rate.)
C23_StartSelectsOrFails ==
    (spStart # <<>> /\ spStart[1].stage = "device") =>
        LET call == spStart[1]
        IN /\ (call.index = <<>> /\ Eligible(spVariant, spDevices) = {})
                  => call.raised
           /\ call.raised => ~spRunning
           /\ (~call.raised /\ call.index = <<>>)
                  => call.chosen[1] \in Eligible(spVariant, spDevices)
           /\ ~call.raised =>
                  /\ spDevices[call.chosen[1]].channels > 0
                  /\ spDevices[call.chosen[1]].rate # 0

\* C24: the streaming recognizer's read_text() returns the final text when
\* it is non-empty and differs from the last returned text; otherwise it
\* returns the partial text exactly when that is non-empty, differs from the
\* last returned text and ends in a sentence terminator.  (The code consults
\* the partial result only when Result() returned an empty string.)
C24_FinalElsePartial ==
    (spVariant = "streaming" /\ spRead # <<>> /\ spRead[1].active) =>
        LET call == spRead[1]
            finalText == IF call.final.kind = "json"
                         THEN Strip(call.final.text) ELSE <<>>
            partialText == IF call.partial.kind = "json"
                           THEN Strip(call.partial.text) ELSE <<>>
        IN call.result =
              IF finalText # <<>> /\ finalText # call.last
              THEN <<finalText>>
              ELSE IF /\ partialText # <<>> /\ partialText # call.last
                      /\ EndsWithTerminator(partialText)
                   THEN <<partialText>>
                   ELSE <<>>

C26_QueueWithinCapacity ==
    spQueue <= QueueMaxsize(spVariant)

\* C27: only the consumer task writes the recognition buffer and results:
\* every step that changes _audio_buffer, _last_transcription or
\* _last_transcription_time is a step of the consumer.  (read_text() clears
\* _last_transcription and stop() clears _audio_buffer.)
C27_ConsumerOnlyWriter ==
    [][ (\/ spBuffer' # spBuffer
         \/ spTranscription' # spTranscription
         \/ spStamp' # spStamp)
        => (spPc \in {"append", "transcribe", "stamp", "clear"}
               /\ spPc' # spPc) ]_vars

\* C31: the engine calls the translation client in a cycle only if
\* should_translate returned true for that cycle's text, and a call for the
\* text of the call before it comes more than the cache TTL after that call.
C31_CallsOnlyWhenAccepted ==
    /\ (translateCalls # <<>> \/ pc = "translate") =>
           (shouldTranslate = "yes" /\ translateCalls = <<text[1]>>)
    /\ (lastRequest # <<>> /\ lastRequest[1].gap # <<>>) =>
           lastRequest[1].gap[1] > ttl
\* a second call for the same text, in flight
C31_Witness ==
    /\ pc = "translate"
    /\ lastRequest # <<>> /\ lastRequest[1].gap # <<>>
    /\ lastRequest[1].text = Normalize(text[1])
    /\ lastRequest[1].time = now

\* C37: a speech recognizer has at most one consumer thread alive at any
\* time.  (A start() that follows a stop() whose join timed out creates a
\* second one while the first still runs.)
C37_OneConsumer ==
    spOrphans + (IF spPc \in {"none", "done"} THEN 0 ELSE 1) <= 1

\* the buffer holds less audio than the transcription threshold
BelowThreshold(chunks) == chunks * ChunkSize < BufferSeconds * SampleRate

C33_LoopExitsAfterStop ==
    /\ [][ (pc = "translate" /\ pc' # pc) =>
              (inFlight' = inFlight - 1 /\ pc' = "sleep") ]_vars
    /\ (stopEvent /\ IsAlive) ~> (pc = "exited" \/ ~stopEvent)
\* stop() came while a translation was in flight; the call returned its
\* result and the loop then exited
C33_Witness ==
    /\ lastOp = "stop" /\ stopEvent /\ ~running
    /\ pc = "exited"
    /\ Outcome = "translated"

\* C34: the cache entry is written by the cache check of the cycle, before
\* the translation call: while the call is in flight the entry holds the
\* normalized text with the time of the request, and the return or failure
\* of the call leaves it alone.  A later cycle that recognizes the stored
\* text at most the TTL after the stored time emits nothing, calls nothing
\* and keeps the entry, whatever became of the earlier call.
C34_RecordedBeforeCall ==
    /\ [][ /\ (pc = "dedup" /\ pc' = "translate") =>
                  cacheEntry' = <<[text |-> Normalize(text[1]),
                                   timestamp |-> now]>>
           /\ (pc = "translate" /\ pc' # pc) => cacheEntry' = cacheEntry
           /\ cacheEntry' # cacheEntry => pc = "dedup"
           /\ (pc = "dedup" /\ pc' # pc /\ cacheEntry # <<>>
                 /\ cacheEntry[1].text = Normalize(text[1])
                 /\ now - cacheEntry[1].timestamp <= ttl) =>
                  /\ pc' = "skipsleep"
                  /\ events' = events /\ translateCalls' = translateCalls
                  /\ inFlight' = inFlight
                  /\ cacheEntry' = cacheEntry
        ]_vars
\* the translation of a text failed and the next cycle, recognizing the
\* same text within the TTL, was skipped
C34_Witness ==
    /\ prevOutcome = "error_translate"
    /\ pc = "skipsleep" /\ shouldTranslate = "no"
    /\ cacheEntry # <<>> /\ cacheEntry[1].text = Normalize(text[1])
    /\ lastRequest # <<>> /\ lastRequest[1].text = cacheEntry[1].text
    /\ lastRequest[1].time = cacheEntry[1].timestamp
    /\ now - cacheEntry[1].timestamp <= ttl
    /\ events = <<>> /\ translateCalls = <<>>

\* C35: once stop() has returned to its caller, and until the next call of
\* start() or stop(), the run loop emits no event.
C35_SilentAfterStop ==
    [][ (lastOp = "stop" /\ callerPc = "idle") =>
            (events' = events \/ events' = <<>>) ]_vars

\* C36: whenever the engine reports Running and no start() call is in
\* progress, a run-loop thread of the engine is alive.
C36_RunningHasLoop ==
    (running /\ callerPc # "starting") => IsAlive

\* C38: when the latest start() of a speech recognizer of either variant
\* raised after the audio library handle was created (no loopback device,
\* a device without input channels, a stream that does not open), the
\* recognizer is not running and holds no library handle, no stream and no
\* model.
C38_FailedStartReleases ==
    (spStart # <<>> /\ spStart[1].stage = "device" /\ spStart[1].raised) =>
        (~spRunning /\ ~spPyaudio /\ ~spStream /\ ~spModel)

\* C39: a read_text() call of the batched recognizer that clears the stored
\* transcription returns exactly the transcription it clears.
C39_ClearsWhatItReturns ==
    [][ (spVariant = "batched" /\ spRdPc = "clear" /\ spRdPc' = "idle") =>
            spTranscription = spRdResult ]_vars

\* a text with a first and a last character that are not whitespace and no
\* two whitespace characters in a row
WellFormedText(t) ==
    /\ t # <<>>
    /\ t[1] \notin Whitespace /\ t[Len(t)] \notin Whitespace
    /\ \A i \in 1..(Len(t) - 1) :
           ~(t[i] \in Whitespace /\ t[i + 1] \in Whitespace)

\* C40: the cache holds at most one entry; the text of the entry is
\* non-empty, without leading or trailing whitespace and without a run of
\* two whitespace characters; no should_translate call removes the entry or
\* moves its timestamp back.
C40_SingleEntryInvariant ==
    /\ [](Len(cacheEntry) <= 1
            /\ (cacheEntry # <<>> => WellFormedText(cacheEntry[1].text)))
    /\ [][ cacheEntry # <<>> =>
              /\ cacheEntry' # <<>>
              /\ cacheEntry'[1].timestamp >= cacheEntry[1].timestamp ]_vars
\* an entry replaced at a later time by a call whose input had a run of two
\* spaces
C40_Witness ==
    /\ lastCall # <<>> /\ lastCall[1].before # <<>> /\ lastCall[1].ret
    /\ lastCall[1].text = <<"a", " ", " ", "a">>
    /\ cacheEntry = <<[text |-> <<"a", " ", "a">>, timestamp |-> now]>>
    /\ lastCall[1].before[1].text = <<"a">>
    /\ lastCall[1].before[1].timestamp < now

====
